---- MODULE Spec2Model ----
(***************************************************************************)
(* A model of the trading-mcp server: the options-ratio page parser        *)
(* (BarchartAdapter), the scoring heuristics (financial health score,      *)
(* insider sentiment), the tool handlers behind the CallTool dispatcher,   *)
(* the tool catalog and the bearer token of the RedditAdapter.             *)
(*                                                                         *)
(* The repository holds two implementations of                             *)
(* BarchartAdapter.parsePutCallRatioData that produce a validationResult:  *)
(*   "inline"        src/src/adapters/barchart.ts  (validatePutCallData)   *)
(*   "restructured"  src/unnamed/part_003          (validateData)          *)
(* Both are modelled; the variable impl says which one a behaviour runs.   *)
(*                                                                         *)
(* Numbers are exact rationals [n, d] (d > 0, lowest terms): JavaScript's  *)
(* doubles are modelled by the reals they approximate.  Volumes and open   *)
(* interest read from a page are counts, so the pages enumerated carry     *)
(* non-negative numbers only.                                              *)
(***************************************************************************)
EXTENDS Integers, Sequences, FiniteSets, TLC

VARIABLES
    impl,           \* which parsePutCallRatioData implementation runs
    page,           \* the options-ratio page served by the upstream
    stage,          \* position of the put/call parse: "idle", "fetched", "parsed"
    parsed,         \* the locals and the result of parsePutCallRatioData
    hstage,         \* calculateFinancialHealthScore: "idle", "fetching", "scored"
    weights,        \* the weights its schema produced from the arguments
    fundamentals,   \* what FinvizAdapter.getFundamentals returned
    health,         \* the result of calculateHealthScore
    istage,         \* analyzeInsiderSentiment: "idle", "fetching", "analysed"
    iargs,          \* analysis_period, min_transaction_value and the clock
    transactions,   \* what FinvizAdapter.getInsiderActivity returned
    sentiment,      \* the result of calculateInsiderSentiment
    build,          \* which CallTool dispatcher the server was built with
    config,         \* which API credentials the environment holds
    tools,          \* the tool catalog built when the server module loads
    dstage,         \* the CallTool handler: "idle", "awaiting", "responded"
    request,        \* the tool call being served
    upstream,       \* how the tool's upstream request settled
    toolOutcome,    \* what the tool handler did: returned or threw
    response,       \* what the CallTool handler returned
    clock,          \* the time new Date() reads
    reddit          \* the RedditAdapter of each Reddit tool invocation

putCallVars == <<page, stage, parsed>>
healthVars == <<hstage, weights, fundamentals, health>>
insiderVars == <<istage, iargs, transactions, sentiment>>
dispatchVars == <<dstage, request, upstream, toolOutcome, response>>

redditVars == <<clock, reddit>>

vars == <<impl, putCallVars, healthVars, insiderVars, build, config, tools,
          dispatchVars, redditVars>>

NoResult == [none |-> TRUE]

(***************************************************************************)
(* Bounds of the model.                                                    *)
(***************************************************************************)
MaxRows == 3
MaxVol == 2
MaxMixedRows == 2
MaxWeight == 1
MaxTransactions == 2
MaxAge == 2
MaxTableRows == 2
MaxInvocations == 2
MaxClock == 3
MaxExpiresIn == 2
MaxTickers == 2

(***************************************************************************)
(* Exact rational arithmetic.                                              *)
(***************************************************************************)
RECURSIVE GCD(_, _)
GCD(a, b) == IF b = 0 THEN a ELSE GCD(b, a % b)

Abs(x) == IF x < 0 THEN -x ELSE x

Rat(n, d) ==
    LET g == GCD(Abs(n), d)
    IN  [n |-> n \div g, d |-> d \div g]

Zero == [n |-> 0, d |-> 1]
Num(k) == [n |-> k, d |-> 1]
Dec(h) == Rat(h, 100)

RLt(a, b) == a.n * b.d < b.n * a.d
RGt(a, b) == RLt(b, a)
RLe(a, b) == ~RLt(b, a)
RGe(a, b) == ~RLt(a, b)
RIsZero(a) == a.n = 0
RAdd(a, b) == Rat(a.n * b.d + b.n * a.d, a.d * b.d)
RSub(a, b) == Rat(a.n * b.d - b.n * a.d, a.d * b.d)
RAbs(a) == [n |-> Abs(a.n), d |-> a.d]
RDiv(a, b) == Rat(a.n * b.d, a.d * b.n)

\* a || b on numbers: the left operand unless it is 0 (falsy)
OrElse(a, b) == IF RIsZero(a) THEN b ELSE a

\* Number.prototype.toFixed(2) of a non-negative number, as hundredths:
\* the integer h with h/100 nearest to x, the larger one on a tie
toFixed2(x) == (200 * x.n + x.d) \div (2 * x.d)

(***************************************************************************)
(* Page text.  A cell (or a regex capture) is the number its text spells,  *)
(* or NoText when the text holds no number ("", "-", "N/A") or is absent.  *)
(***************************************************************************)
NoText == [n |-> 0, d |-> 0]

\* parseNumber: 0 for a missing or non-numeric text, else the number
parseNumber(value) == IF value.d = 0 THEN Zero ELSE value

Fields == {"putVolume", "callVolume", "volumeRatio", "putOI", "callOI", "oiRatio"}

\* the i-th cell after the date cell; undefined past the end of the row
Cell(row, i) == IF i <= Len(row.cells) THEN row.cells[i] ELSE NoText
NCells(row) == 1 + Len(row.cells)

(***************************************************************************)
(* extractTotals: the structured totals block, then, when both volume      *)
(* totals are still 0, the whole-page regexes.  The inline implementation  *)
(* then fills a zero ratio from the totals it has.                         *)
(***************************************************************************)
structuredTotals(pg) == [f \in Fields |-> parseNumber(pg.block[f])]

\* the fallback test with || in the place of &&
regexStageRunsOnEitherZero(pg) ==
    \/ RIsZero(structuredTotals(pg).putVolume)
    \/ RIsZero(structuredTotals(pg).callVolume)

regexStageRuns(pg) ==
    /\ RIsZero(structuredTotals(pg).putVolume)
    /\ RIsZero(structuredTotals(pg).callVolume)

regexTotals(pg, t) ==
    [f \in Fields |-> IF pg.regex[f].d # 0 THEN parseNumber(pg.regex[f]) ELSE t[f]]

fillRatios(t) ==
    [t EXCEPT
        !.volumeRatio = IF RIsZero(t.volumeRatio) /\ RGt(t.callVolume, Zero)
                        THEN RDiv(t.putVolume, t.callVolume) ELSE @,
        !.oiRatio = IF RIsZero(t.oiRatio) /\ RGt(t.callOI, Zero)
                    THEN RDiv(t.putOI, t.callOI) ELSE @]

\* the six quantities as read from the page
readTotals(pg) ==
    LET b == structuredTotals(pg)
    IN  IF regexStageRuns(pg) THEN regexTotals(pg, b) ELSE b

extractTotals(im, pg) ==
    IF im = "inline" THEN fillRatios(readTotals(pg)) ELSE readTotals(pg)

(***************************************************************************)
(* extractTableData: one entry per date-like row of at least 6 cells with  *)
(* some volume.                                                            *)
(***************************************************************************)
\* the quotient without the guard on the call side: x / 0 is Infinity or
\* NaN, a number with no finite value (denominator 0)
rowRatioUnguarded(cell, put, call) ==
    OrElse(parseNumber(cell),
           IF call.n = 0 THEN [n |-> 1, d |-> 0] ELSE RDiv(put, call))

rowRatio(cell, put, call) ==
    OrElse(parseNumber(cell), IF RGt(call, Zero) THEN RDiv(put, call) ELSE Zero)

rowContributes(row) ==
    /\ NCells(row) >= 6
    /\ row.date
    /\ \/ RGt(parseNumber(Cell(row, 1)), Zero)
       \/ RGt(parseNumber(Cell(row, 2)), Zero)

rowEntry(row) ==
    LET putVolume == parseNumber(Cell(row, 1))
        callVolume == parseNumber(Cell(row, 2))
        putOI == parseNumber(Cell(row, 4))
        callOI == parseNumber(Cell(row, 5))
    IN  [expirationDate |-> "date",
         putVolume |-> putVolume,
         callVolume |-> callVolume,
         putCallVolumeRatio |-> rowRatio(Cell(row, 3), putVolume, callVolume),
         putOpenInterest |-> putOI,
         callOpenInterest |-> callOI,
         putCallOIRatio |-> rowRatio(Cell(row, 6), putOI, callOI),
         totalVolume |-> RAdd(putVolume, callVolume),
         totalOpenInterest |-> RAdd(putOI, callOI)]

RECURSIVE extractTableData(_)
extractTableData(rows) ==
    IF rows = <<>> THEN <<>>
    ELSE IF rowContributes(Head(rows))
         THEN <<rowEntry(Head(rows))>> \o extractTableData(Tail(rows))
         ELSE extractTableData(Tail(rows))

(***************************************************************************)
(* consolidateTotals: extracted totals first, else the sums over the rows; *)
(* the synthetic "Overall" row.                                            *)
(***************************************************************************)
RECURSIVE SumOf(_, _)
SumOf(entries, field) ==
    IF entries = <<>> THEN Zero
    ELSE RAdd(Head(entries)[field], SumOf(Tail(entries), field))

overallRow(t) ==
    [expirationDate |-> "Overall",
     putVolume |-> t.putVolume,
     callVolume |-> t.callVolume,
     putCallVolumeRatio |-> t.volumeRatio,
     putOpenInterest |-> t.putOI,
     callOpenInterest |-> t.callOI,
     putCallOIRatio |-> t.oiRatio,
     totalVolume |-> RAdd(t.putVolume, t.callVolume),
     totalOpenInterest |-> RAdd(t.putOI, t.callOI)]

\* the condition under which the synthetic row is pushed
needsOverallRow(im, t, entries) ==
    /\ entries = <<>>
    /\ \/ RGt(t.putVolume, Zero)
       \/ RGt(t.callVolume, Zero)
       \/ (im = "inline" /\ RGt(t.volumeRatio, Zero))

\* precedence given to the extraction as a whole: every extracted value
\* when some volume was extracted, every sum otherwise
finalTotalsAllOrNothing(extracted, entries) ==
    LET use == ~RIsZero(extracted.putVolume) \/ ~RIsZero(extracted.callVolume)
        putVolume == IF use THEN extracted.putVolume
                     ELSE SumOf(entries, "putVolume")
        callVolume == IF use THEN extracted.callVolume
                      ELSE SumOf(entries, "callVolume")
        putOI == IF use THEN extracted.putOI
                 ELSE SumOf(entries, "putOpenInterest")
        callOI == IF use THEN extracted.callOI
                  ELSE SumOf(entries, "callOpenInterest")
    IN  [putVolume |-> putVolume,
         callVolume |-> callVolume,
         putOI |-> putOI,
         callOI |-> callOI,
         volumeRatio |-> OrElse(extracted.volumeRatio,
                                IF RGt(callVolume, Zero)
                                THEN RDiv(putVolume, callVolume) ELSE Zero),
         oiRatio |-> OrElse(extracted.oiRatio,
                            IF RGt(callOI, Zero) THEN RDiv(putOI, callOI) ELSE Zero)]

finalTotalsOf(extracted, entries) ==
    LET putVolume == OrElse(extracted.putVolume, SumOf(entries, "putVolume"))
        callVolume == OrElse(extracted.callVolume, SumOf(entries, "callVolume"))
        putOI == OrElse(extracted.putOI, SumOf(entries, "putOpenInterest"))
        callOI == OrElse(extracted.callOI, SumOf(entries, "callOpenInterest"))
    IN  [putVolume |-> putVolume,
         callVolume |-> callVolume,
         putOI |-> putOI,
         callOI |-> callOI,
         volumeRatio |-> OrElse(extracted.volumeRatio,
                                IF RGt(callVolume, Zero)
                                THEN RDiv(putVolume, callVolume) ELSE Zero),
         oiRatio |-> OrElse(extracted.oiRatio,
                            IF RGt(callOI, Zero) THEN RDiv(putOI, callOI) ELSE Zero)]

\* <<final totals, ratiosByDate after the push>>
consolidateTotals(im, extracted, entries) ==
    IF im = "inline"
    THEN LET rows == IF needsOverallRow(im, extracted, entries)
                     THEN <<overallRow(extracted)>> ELSE entries
         IN  <<finalTotalsOf(extracted, rows), rows>>
    ELSE LET totals == finalTotalsOf(extracted, entries)
         IN  <<totals,
               IF needsOverallRow(im, totals, entries)
               THEN <<overallRow(totals)>> ELSE entries>>

(***************************************************************************)
(* analyzePutCallSentiment.  An insight string is modelled by what it      *)
(* says: its kind, its wording and the ratio it embeds (toFixed(2), in     *)
(* hundredths; -1 when it embeds none).                                    *)
(***************************************************************************)
Insight(kind, says, fixed) == [kind |-> kind, says |-> says, fixed |-> fixed]

\* sentimentOf with the bearish threshold inclusive (>= 1.2)
sentimentOfInclusive(volumeRatio) ==
    IF RGe(volumeRatio, Dec(120)) THEN "bearish"
    ELSE IF RLt(volumeRatio, Dec(80)) THEN "bullish"
    ELSE "neutral"

sentimentOf(volumeRatio) ==
    IF RGt(volumeRatio, Dec(120)) THEN "bearish"
    ELSE IF RLt(volumeRatio, Dec(80)) THEN "bullish"
    ELSE "neutral"

volumeInsights(volumeRatio) ==
    IF RGt(volumeRatio, Dec(120))
    THEN <<Insight("volume", "heavy put buying", toFixed2(volumeRatio))>>
    ELSE IF RLt(volumeRatio, Dec(80))
    THEN <<Insight("volume", "heavy call buying", toFixed2(volumeRatio))>>
    ELSE <<Insight("volume", "neutral sentiment", toFixed2(volumeRatio))>>

oiInsights(oiRatio) ==
    IF RGt(oiRatio, Dec(150))
    THEN <<Insight("oi", "hedging activity", toFixed2(oiRatio))>>
    ELSE IF RGt(oiRatio, Zero) /\ RLt(oiRatio, Dec(50))
    THEN <<Insight("oi", "bullish positioning", toFixed2(oiRatio))>>
    ELSE <<>>

\* the trend test over the first three volume ratios
isIncreasing(im, r) ==
    IF im = "inline"
    THEN RGt(r[1], r[2]) /\ RGt(r[2], r[3])
    ELSE RGe(r[2], r[1]) /\ RGe(r[3], r[2])

isDecreasing(im, r) ==
    IF im = "inline"
    THEN RLt(r[1], r[2]) /\ RLt(r[2], r[3])
    ELSE RLe(r[2], r[1]) /\ RLe(r[3], r[2])

trendInsights(im, ratiosByDate) ==
    IF Len(ratiosByDate) >= 3
    THEN LET recentRatios == [i \in 1..3 |-> ratiosByDate[i].putCallVolumeRatio]
         IN  IF isIncreasing(im, recentRatios)
             THEN <<Insight("trend", "increasing", -1)>>
             ELSE IF isDecreasing(im, recentRatios)
             THEN <<Insight("trend", "decreasing", -1)>>
             ELSE <<>>
    ELSE <<>>

analyzePutCallSentiment(im, volumeRatio, oiRatio, ratiosByDate) ==
    [sentiment |-> sentimentOf(volumeRatio),
     keyInsights |-> volumeInsights(volumeRatio) \o oiInsights(oiRatio)
                     \o trendInsights(im, ratiosByDate)]

(***************************************************************************)
(* Validation: validateData (restructured), validatePutCallData (inline).  *)
(* A warning is modelled by its kind.                                      *)
(***************************************************************************)
highRatioWarnings(t) ==
    (IF RGt(t.volumeRatio, Num(10)) THEN <<"high volume ratio">> ELSE <<>>)
    \o (IF RGt(t.oiRatio, Num(5)) THEN <<"high OI ratio">> ELSE <<>>)

\* validateData looking at the volume totals only
validateDataVolumesOnly(t) ==
    LET hasData == RGt(t.putVolume, Zero) \/ RGt(t.callVolume, Zero)
    IN  IF ~hasData
        THEN [isValid |-> FALSE, warnings |-> <<"no data">>]
        ELSE [isValid |-> TRUE, warnings |-> highRatioWarnings(t)]

validateData(t) ==
    LET hasData == \/ RGt(t.putVolume, Zero) \/ RGt(t.callVolume, Zero)
                   \/ RGt(t.putOI, Zero) \/ RGt(t.callOI, Zero)
    IN  IF ~hasData
        THEN [isValid |-> FALSE, warnings |-> <<"no data">>]
        ELSE [isValid |-> TRUE, warnings |-> highRatioWarnings(t)]

mismatch(put, call, ratio) ==
    /\ RGt(call, Zero)
    /\ RGt(ratio, Zero)
    /\ RGt(RAbs(RSub(RDiv(put, call), ratio)), Dec(10))

validatePutCallData(t) ==
    IF /\ RIsZero(t.putVolume) /\ RIsZero(t.callVolume)
       /\ RIsZero(t.putOI) /\ RIsZero(t.callOI)
    THEN [isValid |-> FALSE, warnings |-> <<"no data">>]
    ELSE [isValid |-> TRUE,
          warnings |->
              (IF mismatch(t.putVolume, t.callVolume, t.volumeRatio)
               THEN <<"volume ratio mismatch">> ELSE <<>>)
              \o (IF mismatch(t.putOI, t.callOI, t.oiRatio)
                  THEN <<"OI ratio mismatch">> ELSE <<>>)
              \o highRatioWarnings(t)
              \o (IF /\ (RGt(t.putVolume, Zero) \/ RGt(t.callVolume, Zero))
                     /\ RIsZero(t.volumeRatio)
                  THEN <<"volume ratio computed">> ELSE <<>>)
              \o (IF /\ (RGt(t.putOI, Zero) \/ RGt(t.callOI, Zero))
                     /\ RIsZero(t.oiRatio)
                  THEN <<"OI ratio computed">> ELSE <<>>)]

validationOf(im, t) ==
    IF im = "inline" THEN validatePutCallData(t) ELSE validateData(t)

(***************************************************************************)
(* parsePutCallRatioData: the PutCallRatioAnalysis of a page, with the     *)
(* locals the later stages read (extracted, tableRows).                    *)
(***************************************************************************)
parsePutCallRatioData(im, pg) ==
    LET extracted == extractTotals(im, pg)
        tableRows == extractTableData(pg.rows)
        cons == consolidateTotals(im, extracted, tableRows)
        finalTotals == cons[1]
        ratiosByDate == cons[2]
    IN  [read |-> readTotals(pg),
         extracted |-> extracted,
         tableRows |-> tableRows,
         overallPutCallVolumeRatio |-> finalTotals.volumeRatio,
         overallPutCallOIRatio |-> finalTotals.oiRatio,
         totalPutVolume |-> finalTotals.putVolume,
         totalCallVolume |-> finalTotals.callVolume,
         totalPutOI |-> finalTotals.putOI,
         totalCallOI |-> finalTotals.callOI,
         ratiosByDate |-> ratiosByDate,
         analysis |-> analyzePutCallSentiment(im, finalTotals.volumeRatio,
                                              finalTotals.oiRatio, ratiosByDate),
         validationResult |-> validationOf(im, finalTotals)]

(***************************************************************************)
(* The pages the upstream may serve: rows of the ratio table, the totals   *)
(* block and the labelled quantities the whole-page regexes find.          *)
(***************************************************************************)
Impls == {"inline", "restructured"}

Row(date, cells) == [date |-> date, cells |-> cells]

\* date rows with volumes only: no ratio cells, no open interest
VolumeRows ==
    {Row(TRUE, <<Num(p), Num(c), NoText, Num(0), Num(0), NoText>>) :
        p \in 0..MaxVol, c \in 0..MaxVol}

\* date rows with an explicit ratio cell, one disagreeing with put/call
RatioCellRows ==
    {Row(TRUE, <<Num(1), Num(1), Dec(300), Num(0), Num(0), NoText>>),
     Row(TRUE, <<Num(1), Num(2), Dec(50), Num(0), Num(0), NoText>>)}

OIRows ==
    {Row(TRUE, <<Num(1), Num(1), NoText, Num(po), Num(co), orr>>) :
        po \in 0..1, co \in 0..1, orr \in {NoText, Dec(200)}}

\* a row that is no date row, a row of 6 cells, a row of 5 cells
ShapeRows ==
    {Row(FALSE, <<Num(1), Num(1), NoText, Num(1), Num(1), NoText>>),
     Row(TRUE, <<Num(1), Num(1), NoText, Num(1), Num(2)>>),
     Row(TRUE, <<Num(1), Num(1), NoText, Num(1)>>)}

RowKinds == VolumeRows \cup RatioCellRows \cup OIRows \cup ShapeRows

NoBlock == [f \in Fields |-> NoText]

VolumeRatioTexts == {NoText, Dec(50), Dec(80), Dec(120), Dec(150), Dec(1100)}
OIRatioTexts == {NoText, Dec(40), Dec(600)}

Blocks ==
    {[putVolume |-> Num(pv), callVolume |-> Num(cv), volumeRatio |-> vr,
      putOI |-> Num(po), callOI |-> Num(co), oiRatio |-> orr] :
        pv \in 0..MaxVol, cv \in 0..MaxVol, vr \in VolumeRatioTexts,
        po \in 0..1, co \in 0..1, orr \in OIRatioTexts}

\* blocks met by the pages that also carry labelled text for the regexes
SparseBlocks ==
    {[putVolume |-> Num(pv), callVolume |-> Num(0), volumeRatio |-> vr,
      putOI |-> Num(po), callOI |-> Num(0), oiRatio |-> NoText] :
        pv \in 0..1, vr \in {NoText, Dec(150)}, po \in 0..1}

Regexes ==
    {[putVolume |-> pv, callVolume |-> cv, volumeRatio |-> vr,
      putOI |-> po, callOI |-> co, oiRatio |-> orr] :
        pv \in {NoText} \cup {Num(v) : v \in 0..MaxVol},
        cv \in {NoText} \cup {Num(v) : v \in 0..MaxVol},
        vr \in {NoText, Num(0), Dec(150)},
        po \in {NoText, Num(1)}, co \in {NoText, Num(1)},
        orr \in {NoText, Dec(600)}}

Page(block, regex, rows) == [block |-> block, regex |-> regex, rows |-> rows]

NoPage == Page(NoBlock, NoBlock, <<>>)

(***************************************************************************)
(* calculateHealthScore (src/src/tools/fundamentals.ts).  A fundamentals   *)
(* field is the number its text spells once '%' is dropped, or NoText when *)
(* the field is absent or parseFloat gives NaN.  The details and           *)
(* interpretation strings of the result are left out.                      *)
(***************************************************************************)
RMul(a, b) == Rat(a.n * b.n, a.d * b.d)
RMax(a, b) == IF RLt(a, b) THEN b ELSE a
RMin(a, b) == IF RLt(b, a) THEN b ELSE a

\* Math.floor in the place of Math.round
mathFloor(x) == x.n \div x.d

\* Math.round: the nearest integer, the larger one on a tie
mathRound(x) == (2 * x.n + x.d) \div (2 * x.d)

\* Math.min(100, Math.max(0, x))
\* the clamp without its Math.min
clampBelowOnly(x) == RMax(Zero, x)

clamp100(x) == RMin(Num(100), RMax(Zero, x))

Components == {"profitability", "liquidity", "leverage", "efficiency", "growth"}

\* the defaults of FinancialHealthSchema
DefaultWeights ==
    [profitability |-> Dec(30), liquidity |-> Dec(20), leverage |-> Dec(20),
     efficiency |-> Dec(15), growth |-> Dec(15)]

HasNumber(text) == text.d # 0

profitabilityScore(f) ==
    LET marginScore ==
            IF HasNumber(f.profitMargin)
            THEN clamp100(RAdd(Num(50), RMul(f.profitMargin, Num(2))))
            ELSE Num(50)
    IN  IF HasNumber(f.returnOnEquity)
        THEN RDiv(RAdd(marginScore,
                       clamp100(RAdd(Num(50), RMul(f.returnOnEquity, Num(3))))),
                  Num(2))
        ELSE marginScore

liquidityScore(f) ==
    LET ratio == f.currentRatio
    IN  IF ~HasNumber(ratio) THEN Num(50)
        ELSE IF RGe(ratio, Dec(150)) /\ RLe(ratio, Num(3)) THEN Num(90)
        ELSE IF RGe(ratio, Num(1)) /\ RLt(ratio, Dec(150)) THEN Num(70)
        ELSE IF RGt(ratio, Num(3)) THEN Num(60)
        ELSE Num(20)

leverageScore(f) ==
    LET debtToEquity == f.debtToEquity
    IN  IF ~HasNumber(debtToEquity) THEN Num(50)
        ELSE IF RLe(debtToEquity, Dec(30)) THEN Num(90)
        ELSE IF RLe(debtToEquity, Dec(60)) THEN Num(70)
        ELSE IF RLe(debtToEquity, Num(1)) THEN Num(50)
        ELSE RMax(Num(10),
                  RSub(Num(50), RMul(RSub(debtToEquity, Num(1)), Num(20))))

efficiencyScore(f) ==
    LET pe == f.pe
    IN  IF ~(HasNumber(pe) /\ RGt(pe, Zero)) THEN Num(50)
        ELSE IF RGe(pe, Num(10)) /\ RLe(pe, Num(20)) THEN Num(80)
        ELSE IF RGe(pe, Num(5)) /\ RLt(pe, Num(10)) THEN Num(70)
        ELSE IF RGt(pe, Num(20)) /\ RLe(pe, Num(30)) THEN Num(60)
        ELSE IF RGt(pe, Num(30))
             THEN RMax(Num(20), RSub(Num(60), RSub(pe, Num(30))))
        ELSE Num(30)

growthScore(f) ==
    IF HasNumber(f.epsGrowth)
    THEN clamp100(RAdd(Num(50), f.epsGrowth))
    ELSE Num(50)

ratingOf(overallScore) ==
    IF overallScore >= 80 THEN "Excellent"
    ELSE IF overallScore >= 70 THEN "Good"
    ELSE IF overallScore >= 60 THEN "Fair"
    ELSE IF overallScore >= 40 THEN "Below Average"
    ELSE "Poor"

calculateHealthScore(f, w) ==
    LET scores == [profitability |-> profitabilityScore(f),
                   liquidity |-> liquidityScore(f),
                   leverage |-> leverageScore(f),
                   efficiency |-> efficiencyScore(f),
                   growth |-> growthScore(f)]
        overallScore ==
            mathRound(RAdd(RAdd(RAdd(RAdd(
                RMul(scores.profitability, w.profitability),
                RMul(scores.liquidity, w.liquidity)),
                RMul(scores.leverage, w.leverage)),
                RMul(scores.efficiency, w.efficiency)),
                RMul(scores.growth, w.growth)))
    IN  [overall_score |-> overallScore,
         rating |-> ratingOf(overallScore),
         component_scores |-> scores]

\* weights FinancialHealthSchema accepts: any number for each component
WeightChoices(c) ==
    {DefaultWeights[c]} \cup {Num(k) : k \in (0 - MaxWeight)..MaxWeight}

FundamentalsOf(pm, roe, cr, de, pe, eg) ==
    [profitMargin |-> pm, returnOnEquity |-> roe, currentRatio |-> cr,
     debtToEquity |-> de, pe |-> pe, epsGrowth |-> eg]

\* a quote page without the snapshot table: every field absent
NoFundamentals == FundamentalsOf(NoText, NoText, NoText, NoText, NoText, NoText)

StrongFundamentals ==
    FundamentalsOf(Num(40), Num(20), Num(2), Dec(20), Num(15), Num(60))

QuotedFundamentals ==
    {FundamentalsOf(pm, roe, cr, de, pe, eg) :
        pm \in {NoText, Num(0 - 30), Num(10), Num(40)},
        roe \in {NoText, Num(20)},
        cr \in {NoText, Dec(50), Dec(120), Num(2), Num(4)},
        de \in {NoText, Dec(20), Dec(50), Dec(80), Num(2), Num(4)},
        pe \in {NoText, Num(0 - 5), Num(3), Num(7), Num(15), Num(25), Num(40), Num(80)},
        eg \in {NoText, Num(0 - 60), Num(5), Num(20), Num(60)}}

(***************************************************************************)
(* calculateInsiderSentiment (src/src/tools/insider.ts).  Time is counted  *)
(* in half days since the epoch: a transaction date is the midnight that   *)
(* starts its day, the clock reads midnight or noon of Today.  A date text *)
(* is [form, day]; a value text is [sign, amount] with amount -1 when the  *)
(* text spells no number; a transaction type is classed by the keywords it *)
(* holds.  analysis_period is a whole number of days.  The                 *)
(* recent_significant_transactions list of the result is left out.         *)
(***************************************************************************)
Today == MaxAge + 3

DateText(form, day) == [form |-> form, day |-> day]
ValueText(sign, amount) == [sign |-> sign, amount |-> amount]

\* the two patterns give the local midnight of the day; anything else goes
\* through new Date(dateStr), and an invalid date becomes the epoch
parseTransactionDate(dateStr) ==
    IF dateStr.form \in {"mdy", "iso", "words"} THEN 2 * dateStr.day ELSE 0

parseTransactionValue(valueStr) ==
    IF valueStr.amount < 0 THEN 0
    ELSE IF valueStr.sign \in {"minus", "paren"} THEN 0 - valueStr.amount
    ELSE valueStr.amount

\* isBuyTransaction matching the one word "buy" only
isBuyTransactionBuyOnly(type) == type = "buy"

isBuyTransaction(type) == type \in {"buy", "exercise and sale"}
isSellTransaction(type) == type \in {"sale", "exercise and sale"}

\* cutoffDate.setDate(cutoffDate.getDate() - analysisPeriod)
cutoffDate(now, analysisPeriod) == now - 2 * analysisPeriod

isRelevant(transaction, now, analysisPeriod, minValue) ==
    /\ parseTransactionDate(transaction.date) >= cutoffDate(now, analysisPeriod)
    /\ Abs(parseTransactionValue(transaction.value)) >= minValue

\* the sum without Math.abs
RECURSIVE SumSignedValue(_)
SumSignedValue(txs) ==
    IF txs = <<>> THEN 0
    ELSE parseTransactionValue(Head(txs).value) + SumSignedValue(Tail(txs))

RECURSIVE SumAbsValue(_)
SumAbsValue(txs) ==
    IF txs = <<>> THEN 0
    ELSE Abs(parseTransactionValue(Head(txs).value)) + SumAbsValue(Tail(txs))

OfRelationship(txs, relationship) ==
    SelectSeq(txs, LAMBDA t : t.relationship = relationship)

generateInsiderInsights(buys, sells, totalBuyValue, totalSellValue, insiderTypes) ==
    LET netValue == totalBuyValue - totalSellValue
        hasCeo == "ceo" \in DOMAIN insiderTypes
        directorNetValue ==
            IF "director" \in DOMAIN insiderTypes
            THEN insiderTypes["director"].net_value ELSE 0
        net == IF netValue > 100000 THEN <<"net insider buying">>
               ELSE IF netValue < 0 - 100000 THEN <<"net insider selling">>
               ELSE <<>>
        ceo == IF hasCeo /\ insiderTypes["ceo"].net_value > 50000
               THEN <<"CEO net buying">>
               ELSE IF hasCeo /\ insiderTypes["ceo"].net_value < 0 - 50000
               THEN <<"CEO net selling">>
               ELSE <<>>
        board == IF directorNetValue > 100000
                 THEN <<"board net buying">> ELSE <<>>
        frequency == IF Len(buys) > Len(sells) * 2 THEN <<"more buys">>
                     ELSE IF Len(sells) > Len(buys) * 2 THEN <<"more sells">>
                     ELSE <<>>
        insights == net \o ceo \o board \o frequency
    IN  IF insights = <<>> THEN <<"mixed activity">> ELSE insights

\* the branch of calculateInsiderSentiment taken when nothing is relevant
noActivitySentiment ==
    [overall_sentiment |-> "neutral",
     confidence_level |-> "low",
     transaction_summary |->
         [total_transactions |-> 0, buy_transactions |-> 0,
          sell_transactions |-> 0, total_buy_value |-> 0,
          total_sell_value |-> 0],
     key_insights |-> <<"no significant insider transactions">>,
     insider_types |-> <<>>]

\* the rest of calculateInsiderSentiment: categorise, then classify
classifyInsiderSentiment(relevant) ==
    LET buys == SelectSeq(relevant,
                    LAMBDA t : isBuyTransaction(t.transactionType))
        sells == SelectSeq(relevant,
                    LAMBDA t : /\ ~isBuyTransaction(t.transactionType)
                               /\ isSellTransaction(t.transactionType))
        totalBuyValue == SumAbsValue(buys)
        totalSellValue == SumAbsValue(sells)
        relationships == {relevant[i].relationship : i \in 1..Len(relevant)}
        insiderTypes ==
            [r \in relationships |->
                [buys |-> Len(OfRelationship(buys, r)),
                 sells |-> Len(OfRelationship(sells, r)),
                 net_value |-> SumAbsValue(OfRelationship(buys, r))
                               - SumAbsValue(OfRelationship(sells, r))]]
        totalValue == totalBuyValue + totalSellValue
        buyRatio == IF totalValue > 0 THEN Rat(totalBuyValue, totalValue) ELSE Zero
        overallSentiment ==
            IF RGe(buyRatio, Dec(70)) THEN "bullish"
            ELSE IF RLe(buyRatio, Dec(30)) THEN "bearish"
            ELSE "neutral"
        confidenceLevel ==
            IF Len(relevant) >= 10 /\ totalValue >= 1000000 THEN "high"
            ELSE IF Len(relevant) >= 5 /\ totalValue >= 500000 THEN "medium"
            ELSE "low"
    IN  [overall_sentiment |-> overallSentiment,
         confidence_level |-> confidenceLevel,
         transaction_summary |->
             [total_transactions |-> Len(relevant),
              buy_transactions |-> Len(buys),
              sell_transactions |-> Len(sells),
              total_buy_value |-> totalBuyValue,
              total_sell_value |-> totalSellValue,
              net_value |-> totalBuyValue - totalSellValue,
              buy_ratio |-> mathRound(RMul(buyRatio, Num(100)))],
         key_insights |->
             generateInsiderInsights(buys, sells, totalBuyValue,
                                     totalSellValue, insiderTypes),
         insider_types |-> insiderTypes]

relevantTransactions(txs, now, analysisPeriod, minValue) ==
    SelectSeq(txs, LAMBDA t : isRelevant(t, now, analysisPeriod, minValue))

\* calculateInsiderSentiment with the empty case falling through
calculateInsiderSentimentAlwaysClassifies(txs, now, analysisPeriod, minValue) ==
    classifyInsiderSentiment(
        relevantTransactions(txs, now, analysisPeriod, minValue))

calculateInsiderSentiment(txs, now, analysisPeriod, minValue) ==
    LET relevant == relevantTransactions(txs, now, analysisPeriod, minValue)
    IN  IF Len(relevant) = 0
        THEN noActivitySentiment
        ELSE classifyInsiderSentiment(relevant)

Transaction(relationship, date, type, value) ==
    [relationship |-> relationship, date |-> date,
     transactionType |-> type, value |-> value]

\* purchases by a director, one for each age, and one with no readable date
DatedTransactions ==
    {Transaction("director", DateText(form, Today - a), "buy",
                 ValueText("plain", 10000)) :
        a \in 0..MaxAge, form \in {"mdy", "iso"}}
    \cup {Transaction("director", DateText("none", Today), "buy",
                      ValueText("plain", 10000))}

\* today's transactions of the CEO, of every type and value
ValuedTransactions ==
    {Transaction("ceo", DateText("words", Today), type, value) :
        type \in {"buy", "sale", "exercise and sale", "award"},
        value \in {ValueText("plain", 0 - 1), ValueText("plain", 5000),
                   ValueText("minus", 10000), ValueText("paren", 600000)}}

TransactionKinds == DatedTransactions \cup ValuedTransactions

\* many copies of one large transaction, a sale printed in parentheses,
\* with or without one award after them, for the confidence levels
BulkTransactions ==
    {[i \in 1..(k + j) |->
        IF i <= k
        THEN Transaction(r, DateText("iso", Today), type,
                 ValueText(IF type = "sale" THEN "paren" ELSE "plain", v))
        ELSE Transaction(r, DateText("iso", Today), "award",
                 ValueText("plain", v))] :
        k \in {4, 5, 9, 10}, j \in {0, 1}, v \in {100000, 125000},
        r \in {"ceo", "officer"}, type \in {"buy", "sale"}}

\* z.number(): a few days either side of the dated transactions, and one
\* period that reaches back past the epoch
AnalysisPeriods == (0 - 1)..(MaxAge + 1) \cup {Today + 1}
MinTransactionValues == {0, 10000, 20000}
Clocks == {2 * Today, 2 * Today + 1}

(***************************************************************************)
(* The tool handlers and the CallTool dispatcher.  An argument object is   *)
(* [ticker, wellTyped, limit, empty]: the ticker it carries ("none" when   *)
(* it carries none), whether its fields have the types the schema wants,   *)
(* its limit, and whether its news_items list is empty.  Optional filters  *)
(* (metrics, transaction_types) are left unset.  The tickers list of       *)
(* compare_stock_valuations is given with the upstream: one entry per      *)
(* requested ticker, saying how its fetch settles.  A response text is a   *)
(* record naming what the text says.                                       *)
(***************************************************************************)
Envelope(text, isError) ==
    [content |-> <<[type |-> "text", text |-> text]>>, isError |-> isError]

Return(value) == [kind |-> "return", value |-> value]
Throw(message) == [kind |-> "throw", message |-> message]

\* Array.prototype.slice(0, limit)
slice(items, limit) ==
    IF limit >= 0
    THEN SubSeq(items, 1, IF limit < Len(items) THEN limit ELSE Len(items))
    ELSE SubSeq(items, 1, IF Len(items) + limit > 0 THEN Len(items) + limit ELSE 0)

TableRow(cells, key) == [cells |-> cells, key |-> key]

\* the rows of a table that have at least minCells cells and a first
\* identifying cell that is neither empty nor '-', the row at index 0 skipped
RECURSIVE dataRows(_, _, _)
dataRows(rows, index, minCells) ==
    IF index > Len(rows) THEN <<>>
    ELSE LET row == rows[index]
             rest == dataRows(rows, index + 1, minCells)
         IN  IF index > 1 /\ row.cells >= minCells /\ row.key \notin {"", "-"}
             THEN <<row.key>> \o rest
             ELSE rest

\* parseScreenerResults with no row skipped
parseScreenerResultsEveryRow(rows) == dataRows(<<TableRow(0, "")>> \o rows, 1, 11)

parseScreenerResults(rows) == dataRows(rows, 1, 11)
parseInsiderActivity(rows) == dataRows(rows, 1, 7)

FieldOfLabel ==
    [l \in {"P/E", "ROE", "Current Ratio"} |->
        CASE l = "P/E" -> "pe"
          [] l = "ROE" -> "returnOnEquity"
          [] l = "Current Ratio" -> "currentRatio"]

\* parseFundamentals: each known label sets its field, a later one wins
RECURSIVE parseFundamentals(_, _)
parseFundamentals(pairs, found) ==
    IF pairs = <<>> THEN found
    ELSE LET pair == Head(pairs)
         IN  parseFundamentals(Tail(pairs),
                 IF pair.label \in DOMAIN FieldOfLabel
                 THEN [f \in DOMAIN found \cup {FieldOfLabel[pair.label]} |->
                          IF f = FieldOfLabel[pair.label] THEN pair.value
                          ELSE found[f]]
                 ELSE found)

Handlers ==
    {"advancedStockFilter", "getFundamentalMetrics", "analyzeValuationMetrics",
     "calculateFinancialHealthScore", "getInsiderActivity",
     "analyzeInsiderSentiment", "getPutCallRatio", "searchRedditPosts",
     "getRedditComments", "getTrendingTickers", "getLatestNews",
     "analyzeNewsImpact", "getMarketContext", "analyzeSocialSentiment",
     "analyzeRedditSentiment"}

\* imported by the current dispatcher, their files are not in the repository
MissingHandlers ==
    {"analyzeInsiderActivity", "analyzeNewsAndMarketContext",
     "comprehensiveStockAnalysis"}

\* the switch of the current dispatcher
currentHandler(name) ==
    CASE name = "screen_stocks_advanced_filters" -> "advancedStockFilter"
      [] name = "get_fundamental_stock_metrics" -> "getFundamentalMetrics"
      [] name = "compare_stock_valuations" -> "analyzeValuationMetrics"
      [] name = "calculate_financial_health_score" -> "calculateFinancialHealthScore"
      [] name = "analyze_insider_activity" -> "analyzeInsiderActivity"
      [] name = "get_put_call_ratio" -> "getPutCallRatio"
      [] name = "discover_trending_stocks" -> "getTrendingTickers"
      [] name = "analyze_news_and_market_context" -> "analyzeNewsAndMarketContext"
      [] name = "analyze_reddit_sentiment" -> "analyzeRedditSentiment"
      [] name = "comprehensive_stock_analysis" -> "comprehensiveStockAnalysis"
      [] OTHER -> "none"

\* the switch of the dispatcher before it
previousHandler(name) ==
    CASE name = "screen_stocks_advanced_filters" -> "advancedStockFilter"
      [] name = "get_fundamental_stock_metrics" -> "getFundamentalMetrics"
      [] name = "compare_stock_valuations" -> "analyzeValuationMetrics"
      [] name = "calculate_financial_health_score" -> "calculateFinancialHealthScore"
      [] name = "track_insider_trading_activity" -> "getInsiderActivity"
      [] name = "analyze_insider_sentiment" -> "analyzeInsiderSentiment"
      [] name = "get_put_call_ratio" -> "getPutCallRatio"
      [] name = "search_reddit_stock_discussions" -> "searchRedditPosts"
      [] name = "extract_reddit_post_comments" -> "getRedditComments"
      [] name = "discover_trending_stocks" -> "getTrendingTickers"
      [] name = "analyze_stock_news_sentiment" -> "getLatestNews"
      [] name = "assess_news_market_impact" -> "analyzeNewsImpact"
      [] name = "analyze_market_sector_context" -> "getMarketContext"
      [] name = "analyze_social_media_sentiment" -> "analyzeSocialSentiment"
      [] OTHER -> "none"

handlerOf(b, name) ==
    IF b = "current" THEN currentHandler(name) ELSE previousHandler(name)

\* the credentials a handler asks for before anything else
requiredConfig(h) ==
    CASE h \in {"searchRedditPosts", "getRedditComments", "getTrendingTickers"}
             -> {"reddit"}
      [] h \in {"getLatestNews", "analyzeNewsImpact", "getMarketContext"}
             -> {"openai"}
      [] h \in {"analyzeSocialSentiment", "analyzeRedditSentiment"}
             -> {"reddit", "openai"}
      [] OTHER -> {}

\* isRedditConfigured with the client id and secret only
isRedditConfiguredClientOnly(cfg) == cfg.clientId /\ cfg.clientSecret

\* a credential is TRUE when the environment gives it a non-empty string
isRedditConfigured(cfg) ==
    cfg.clientId /\ cfg.clientSecret /\ cfg.username /\ cfg.password

isOpenAIConfigured(cfg) == cfg.openaiApiKey

isConfigured(cfg, h) ==
    /\ "reddit" \in requiredConfig(h) => isRedditConfigured(cfg)
    /\ "openai" \in requiredConfig(h) => isOpenAIConfigured(cfg)

\* the handlers whose schema has no ticker field
NoTickerHandlers ==
    {"advancedStockFilter", "analyzeValuationMetrics", "getRedditComments",
     "getTrendingTickers"}

schemaAccepts(h, args) ==
    args.wellTyped /\ (h \in NoTickerHandlers \/ args.ticker # "none")

\* the handlers whose catch block prints the ticker of the raw arguments
TickerInErrorHandlers ==
    {"getFundamentalMetrics", "calculateFinancialHealthScore",
     "getInsiderActivity", "analyzeInsiderSentiment", "getPutCallRatio",
     "getLatestNews", "getMarketContext"}

toolErrorText(h, args, message) ==
    [says |-> "tool error", tool |-> h,
     ticker |-> IF h \notin TickerInErrorHandlers THEN ""
                ELSE IF args.ticker = "none" THEN "unknown ticker"
                ELSE args.ticker,
     message |-> message]

configErrorText(h) == [says |-> "not configured", needs |-> requiredConfig(h)]

PayloadText(h, data) == [says |-> "payload", tool |-> h, data |-> data]

\* getPutCallRatio after the page is parsed, data quality not looked at
putCallPayloadUnchecked(ratioData) ==
    Return(Envelope(PayloadText("getPutCallRatio",
                        [put_call_analysis |-> ratioData]), FALSE))

\* getPutCallRatio after the page is parsed
putCallPayload(ratioData) ==
    IF ~ratioData.validationResult.isValid
    THEN Return(Envelope(PayloadText("getPutCallRatio",
                    [error |-> "Failed to extract valid put/call ratio data",
                     details |-> ratioData.validationResult.warnings,
                     put_call_analysis |-> ratioData]), TRUE))
    ELSE Return(Envelope(PayloadText("getPutCallRatio",
                    [put_call_analysis |-> ratioData]), FALSE))

\* the loop of analyzeValuationMetrics that gives up at the first failure
RECURSIVE fetchValuationsUntilFailure(_)
fetchValuationsUntilFailure(fetches) ==
    IF fetches = <<>> THEN [valuations |-> {}, errors |-> <<>>]
    ELSE IF Head(fetches).ok
         THEN LET rest == fetchValuationsUntilFailure(Tail(fetches))
              IN  [valuations |-> {Head(fetches).ticker} \cup rest.valuations,
                   errors |-> rest.errors]
         ELSE [valuations |-> {}, errors |-> <<Head(fetches).ticker>>]

\* the loop of analyzeValuationMetrics over the requested tickers, each
\* given with the way its getFundamentals call settles: the keys of the
\* valuations object and the tickers named by the errors array
RECURSIVE fetchValuations(_)
fetchValuations(fetches) ==
    IF fetches = <<>> THEN [valuations |-> {}, errors |-> <<>>]
    ELSE LET rest == fetchValuations(Tail(fetches))
         IN  IF Head(fetches).ok
             THEN [valuations |-> {Head(fetches).ticker} \cup rest.valuations,
                   errors |-> rest.errors]
             ELSE [valuations |-> rest.valuations,
                   errors |-> <<Head(fetches).ticker>> \o rest.errors]

\* what a handler's try block does once its gate is passed
toolBody(h, im, args, up) ==
    IF ~schemaAccepts(h, args) THEN Throw("invalid arguments")
    ELSE IF h = "analyzeNewsImpact" /\ args.empty
    THEN Return(Envelope(PayloadText(h,
                    [error |-> "No news items provided for analysis"]), TRUE))
    ELSE IF h = "analyzeValuationMetrics"
    THEN Return(Envelope(PayloadText(h,
                    [tickers |-> [i \in 1..Len(up.body) |-> up.body[i].ticker],
                     valuations |-> fetchValuations(up.body).valuations,
                     errors |-> fetchValuations(up.body).errors]), FALSE))
    ELSE IF ~up.ok THEN Throw("upstream failure")
    ELSE CASE h = "advancedStockFilter" ->
                LET limitedResults ==
                        slice(parseScreenerResults(up.body), args.limit)
                IN  Return(Envelope(PayloadText(h,
                        [results |-> limitedResults,
                         total_found |-> Len(limitedResults)]), FALSE))
           [] h = "getFundamentalMetrics" ->
                Return(Envelope(PayloadText(h,
                    [fundamentals |-> parseFundamentals(up.body, <<>>)]), FALSE))
           [] h = "getInsiderActivity" ->
                LET limitedTransactions ==
                        slice(parseInsiderActivity(up.body), args.limit)
                IN  Return(Envelope(PayloadText(h,
                        [transactions |-> limitedTransactions,
                         total_transactions |-> Len(limitedTransactions)]), FALSE))
           [] h = "getPutCallRatio" ->
                putCallPayload(parsePutCallRatioData(im, up.body))
           [] h \in {"analyzeSocialSentiment", "analyzeRedditSentiment"}
                /\ up.body = "nothing" ->
                Return(Envelope(PayloadText(h,
                    [error |-> "No Reddit posts found for sentiment analysis"]),
                    FALSE))
           [] OTHER -> Return(Envelope(PayloadText(h, up.body), FALSE))

\* a handler whose catch block is missing
toolHandlerWithoutCatch(h, im, cfg, args, up) ==
    IF ~isConfigured(cfg, h)
    THEN Return(Envelope(configErrorText(h), TRUE))
    ELSE toolBody(h, im, args, up)

\* a handler: the configuration gate, the try block, the catch block
toolHandler(h, im, cfg, args, up) ==
    IF ~isConfigured(cfg, h)
    THEN Return(Envelope(configErrorText(h), TRUE))
    ELSE LET done == toolBody(h, im, args, up)
         IN  IF done.kind = "throw"
             THEN Return(Envelope(toolErrorText(h, args, done.message), TRUE))
             ELSE done

\* a handler whose file is missing: it returns a payload or an error
\* envelope, or it throws
missingToolHandler(h, args, up) ==
    IF up.ok THEN Return(Envelope(PayloadText(h, up.body), FALSE))
    ELSE IF up.caught
    THEN Return(Envelope(toolErrorText(h, args, "upstream failure"), TRUE))
    ELSE Throw("upstream failure")

invokeTool(h, im, cfg, args, up) ==
    IF h \in MissingHandlers THEN missingToolHandler(h, args, up)
    ELSE toolHandler(h, im, cfg, args, up)

unknownToolText(name) == [says |-> "Unknown tool", name |-> name]
executeErrorText(name, message) ==
    [says |-> "Error executing", name |-> name, message |-> message]

\* the CallTool request handler around the outcome of the tool it awaited
callToolResponse(b, name, outcome) ==
    IF handlerOf(b, name) = "none"
    THEN Envelope(unknownToolText(name), TRUE)
    ELSE IF outcome.kind = "throw"
    THEN Envelope(executeErrorText(name, outcome.message), TRUE)
    ELSE outcome.value

\* the upstream request made before the configuration gate is looked at
awaitsUpstreamBeforeGate(h, cfg, args) ==
    /\ h # "none"
    /\ \/ h \in MissingHandlers
       \/ /\ schemaAccepts(h, args)
          /\ ~(h = "analyzeNewsImpact" /\ args.empty)

\* whether the handler gets as far as its upstream request
awaitsUpstream(h, cfg, args) ==
    /\ h # "none"
    /\ \/ h \in MissingHandlers
       \/ /\ isConfigured(cfg, h)
          /\ schemaAccepts(h, args)
          /\ ~(h = "analyzeNewsImpact" /\ args.empty)

ToolNames ==
    {"screen_stocks_advanced_filters", "get_fundamental_stock_metrics",
     "compare_stock_valuations", "calculate_financial_health_score",
     "analyze_insider_activity", "get_put_call_ratio",
     "discover_trending_stocks", "analyze_news_and_market_context",
     "analyze_reddit_sentiment", "comprehensive_stock_analysis",
     "track_insider_trading_activity", "analyze_insider_sentiment",
     "search_reddit_stock_discussions", "extract_reddit_post_comments",
     "analyze_stock_news_sentiment", "assess_news_market_impact",
     "analyze_market_sector_context", "analyze_social_media_sentiment",
     "get_insider_activity", "no_such_tool"}

Arguments ==
    [ticker : {"AAPL", "none"}, wellTyped : BOOLEAN,
     limit : {0 - 1, 1, 10}, empty : BOOLEAN]

Builds == {"current", "previous"}
Configs ==
    [{"openaiApiKey", "clientId", "clientSecret", "username", "password"}
        -> BOOLEAN]

\* the tools array of the server module, in the order it is built
toolCatalog(b, cfg) ==
    IF b = "current"
    THEN <<"screen_stocks_advanced_filters", "get_fundamental_stock_metrics",
           "compare_stock_valuations", "calculate_financial_health_score",
           "analyze_insider_activity", "get_put_call_ratio",
           "comprehensive_stock_analysis">>
         \o (IF isRedditConfigured(cfg)
             THEN <<"discover_trending_stocks">> ELSE <<>>)
         \o (IF isOpenAIConfigured(cfg)
             THEN <<"analyze_news_and_market_context">> ELSE <<>>)
         \o (IF isRedditConfigured(cfg) /\ isOpenAIConfigured(cfg)
             THEN <<"analyze_reddit_sentiment">> ELSE <<>>)
    ELSE <<"screen_stocks_advanced_filters", "get_fundamental_stock_metrics",
           "compare_stock_valuations", "calculate_financial_health_score",
           "track_insider_trading_activity", "analyze_insider_sentiment",
           "get_put_call_ratio">>
         \o (IF isRedditConfigured(cfg)
             THEN <<"search_reddit_stock_discussions",
                    "extract_reddit_post_comments",
                    "discover_trending_stocks">> ELSE <<>>)
         \o (IF isOpenAIConfigured(cfg)
             THEN <<"analyze_stock_news_sentiment",
                    "assess_news_market_impact",
                    "analyze_market_sector_context">> ELSE <<>>)
         \o (IF isRedditConfigured(cfg) /\ isOpenAIConfigured(cfg)
             THEN <<"analyze_social_media_sentiment">> ELSE <<>>)

(***************************************************************************)
(* RedditAdapter (src/src/adapters/reddit.ts): the bearer token is a field *)
(* of the adapter object.  An adapter is [stage, calls, accessToken,       *)
(* tokenExpiry]: where the invocation that built it stands, how many of    *)
(* its calls to the Reddit API are still to come, and the two fields; ""   *)
(* is the token not yet set.                                               *)
(***************************************************************************)
\* the test of ensureValidToken: TRUE returns at once, FALSE authenticates
hasValidToken(adapter, now) ==
    adapter.accessToken # "" /\ adapter.tokenExpiry > now

\* what a successful authenticate() leaves in the adapter
authenticate(adapter, now, expiresIn) ==
    [adapter EXCEPT !.accessToken = "bearer", !.tokenExpiry = now + expiresIn]

ScreenerRows ==
    {TableRow(0, "")}
    \cup {TableRow(c, t) : c \in {10, 11}, t \in {"", "-", "AAPL", "MSFT"}}

\* a results table: the header row, a stock, a row with no ticker, a stock
SampleScreenerTable ==
    <<TableRow(0, ""), TableRow(11, "MSFT"), TableRow(11, "-"),
      TableRow(11, "AAPL")>>

InsiderRows ==
    {TableRow(0, "")}
    \cup {TableRow(c, t) : c \in {6, 7, 8}, t \in {"", "-", "COOK"}}

QuotePairs ==
    {[label |-> l, value |-> v] :
        l \in {"P/E", "ROE", "Current Ratio", "Dividend"}, v \in {"12.5", "-"}}

Fetched(body) == [ok |-> TRUE, body |-> body]
FetchFailed(caught) == [ok |-> FALSE, caught |-> caught]

\* how the upstream request of a handler can settle
UpstreamSettlesAs(h, up) ==
    \/ h # "analyzeValuationMetrics" /\ up = FetchFailed(TRUE)
    \/ h \in MissingHandlers /\ up = FetchFailed(FALSE)
    \/ /\ h = "analyzeValuationMetrics"
       /\ \E k \in 0..MaxTickers :
              \E fetches \in [1..k -> [ticker : {"AAPL", "MSFT"},
                                       ok : BOOLEAN]] :
                  up = Fetched(fetches)
    \/ /\ h = "advancedStockFilter"
       /\ \/ \E k \in 0..MaxTableRows : \E rows \in [1..k -> ScreenerRows] :
                 up = Fetched(rows)
          \/ up = Fetched(SampleScreenerTable)
    \/ /\ h = "getInsiderActivity"
       /\ \E k \in 0..MaxTableRows : \E rows \in [1..k -> InsiderRows] :
              up = Fetched(rows)
    \/ /\ h = "getFundamentalMetrics"
       /\ \E k \in 0..MaxTableRows : \E pairs \in [1..k -> QuotePairs] :
              up = Fetched(pairs)
    \/ /\ h = "getPutCallRatio"
       /\ \E k \in 0..1 : \E rows \in [1..k -> RowKinds] :
              up = Fetched(Page(NoBlock, NoBlock, rows))
    \/ /\ h \notin {"advancedStockFilter", "getInsiderActivity",
                    "getFundamentalMetrics", "getPutCallRatio",
                    "analyzeValuationMetrics"}
       /\ \E body \in {"data", "nothing"} : up = Fetched(body)

(***************************************************************************)
(* The state before a request.  The handlers keep nothing between calls,   *)
(* so a behaviour follows one request from its arrival to its answer.      *)
(***************************************************************************)
PutCallIdle ==
    /\ page = NoPage
    /\ stage = "idle"
    /\ parsed = NoResult

HealthIdle ==
    /\ hstage = "idle"
    /\ weights = DefaultWeights
    /\ fundamentals = NoFundamentals
    /\ health = NoResult

InsiderIdle ==
    /\ istage = "idle"
    /\ iargs = NoResult
    /\ transactions = <<>>
    /\ sentiment = NoResult

DispatchIdle ==
    /\ dstage = "idle"
    /\ request = NoResult
    /\ upstream = NoResult
    /\ toolOutcome = NoResult
    /\ response = NoResult

RedditIdle ==
    /\ clock = 0
    /\ reddit = [p \in 1..MaxInvocations |->
                    [stage |-> "idle", calls |-> 0,
                     accessToken |-> "", tokenExpiry |-> 0]]

Init ==
    /\ impl \in Impls
    /\ build \in Builds
    /\ config \in Configs
    /\ tools = toolCatalog(build, config)
    /\ PutCallIdle
    /\ HealthIdle
    /\ InsiderIdle
    /\ DispatchIdle
    /\ RedditIdle

Deployment == <<impl, build, config, tools>>

(***************************************************************************)
(* BarchartAdapter.getPutCallRatio: the page arrives, then is parsed.      *)
(***************************************************************************)
\* a table only; a table of any rows; a totals block beside at most one row;
\* a sparse block beside labelled text
ServedPage(pg) ==
    \/ \E k \in 0..MaxRows : \E rs \in [1..k -> VolumeRows] :
          pg = Page(NoBlock, NoBlock, rs)
    \/ \E k \in 0..MaxMixedRows : \E rs \in [1..k -> RowKinds] :
          pg = Page(NoBlock, NoBlock, rs)
    \/ \E b \in Blocks : \E k \in 0..1 : \E rs \in [1..k -> RowKinds] :
          pg = Page(b, NoBlock, rs)
    \/ \E b \in SparseBlocks : \E r \in Regexes :
          pg = Page(b, r, <<>>)

FetchPutCallPage ==
    /\ stage = "idle"
    /\ ServedPage(page')
    /\ stage' = "fetched"
    /\ UNCHANGED <<parsed, Deployment, redditVars, healthVars, insiderVars, dispatchVars>>

ParsePutCallPage ==
    /\ stage = "fetched"
    /\ parsed' = parsePutCallRatioData(impl, page)
    /\ stage' = "parsed"
    /\ UNCHANGED <<page, Deployment, redditVars, healthVars, insiderVars, dispatchVars>>

NextPutCall == FetchPutCallPage \/ ParsePutCallPage

InitPutCall == Init /\ build = "current" /\ (\A key \in DOMAIN config : config[key])

SpecPutCall == InitPutCall /\ [][NextPutCall]_vars

(***************************************************************************)
(* calculateFinancialHealthScore: the arguments are parsed and the quote   *)
(* page is requested; the fundamentals arrive and are scored.              *)
(***************************************************************************)
RequestHealthScore ==
    /\ hstage = "idle"
    /\ weights' \in [Components -> UNION {WeightChoices(c) : c \in Components}]
    /\ \A c \in Components : weights'[c] \in WeightChoices(c)
    /\ hstage' = "fetching"
    /\ fundamentals' = NoFundamentals
    /\ health' = NoResult
    /\ UNCHANGED <<Deployment, redditVars, putCallVars, insiderVars, dispatchVars>>

ScoreFundamentals ==
    /\ hstage = "fetching"
    /\ \/ fundamentals' \in {NoFundamentals, StrongFundamentals}
       \/ weights = DefaultWeights /\ fundamentals' \in QuotedFundamentals
    /\ health' = calculateHealthScore(fundamentals', weights)
    /\ hstage' = "scored"
    /\ UNCHANGED <<weights, Deployment, redditVars, putCallVars, insiderVars, dispatchVars>>

NextHealth == RequestHealthScore \/ ScoreFundamentals

InitHealth == Init /\ impl = "restructured" /\ build = "current" /\ (\A key \in DOMAIN config : config[key])

SpecHealth == InitHealth /\ [][NextHealth]_vars

(***************************************************************************)
(* analyzeInsiderSentiment: the arguments are parsed and the quote page is *)
(* requested; the transactions arrive and the sentiment is calculated.     *)
(***************************************************************************)
RequestInsiderSentiment ==
    /\ istage = "idle"
    /\ iargs' \in [analysis_period : AnalysisPeriods,
                   min_transaction_value : MinTransactionValues,
                   now : Clocks]
    /\ istage' = "fetching"
    /\ transactions' = <<>>
    /\ sentiment' = NoResult
    /\ UNCHANGED <<Deployment, redditVars, putCallVars, healthVars, dispatchVars>>

AnalyzeInsiderTransactions ==
    /\ istage = "fetching"
    /\ \/ \E k \in 0..MaxTransactions :
              transactions' \in [1..k -> TransactionKinds]
       \/ transactions' \in BulkTransactions
    /\ sentiment' = calculateInsiderSentiment(transactions', iargs.now,
                        iargs.analysis_period, iargs.min_transaction_value)
    /\ istage' = "analysed"
    /\ UNCHANGED <<iargs, Deployment, redditVars, putCallVars, healthVars, dispatchVars>>

NextInsider == RequestInsiderSentiment \/ AnalyzeInsiderTransactions

InitInsider == InitHealth

SpecInsider == InitInsider /\ [][NextInsider]_vars

(***************************************************************************)
(* The Reddit tools (src/src/tools/social.ts): each invocation builds its  *)
(* own RedditAdapter, and each adapter call first awaits ensureValidToken. *)
(* Invocations are numbered in the order they arrive and run interleaved   *)
(* at their awaits; the clock moves between any two steps.                 *)
(***************************************************************************)
StartRedditTool ==
    \E p \in 1..MaxInvocations, calls \in 1..2 :
        /\ reddit[p].stage = "idle"
        /\ \A q \in 1..(p - 1) : reddit[q].stage # "idle"
        /\ reddit' = [reddit EXCEPT ![p] =
                         [stage |-> "ensuring", calls |-> calls,
                          accessToken |-> "", tokenExpiry |-> 0]]
        /\ UNCHANGED <<clock, Deployment, putCallVars, healthVars,
                       insiderVars, dispatchVars>>

EnsureValidToken ==
    \E p \in 1..MaxInvocations :
        /\ reddit[p].stage = "ensuring"
        /\ reddit' = [reddit EXCEPT ![p].stage =
                         IF hasValidToken(reddit[p], clock)
                         THEN "requesting" ELSE "authenticating"]
        /\ UNCHANGED <<clock, Deployment, putCallVars, healthVars,
                       insiderVars, dispatchVars>>

\* the token request is answered with a token and its lifetime, or fails
\* and the tool answers with the error
AuthenticateSettles ==
    \E p \in 1..MaxInvocations :
        /\ reddit[p].stage = "authenticating"
        /\ \/ \E expiresIn \in 1..MaxExpiresIn :
                 reddit' = [reddit EXCEPT ![p] =
                     [authenticate(reddit[p], clock, expiresIn)
                         EXCEPT !.stage = "requesting"]]
           \/ reddit' = [reddit EXCEPT ![p].stage = "failed"]
        /\ UNCHANGED <<clock, Deployment, putCallVars, healthVars,
                       insiderVars, dispatchVars>>

RedditRequestSettles ==
    \E p \in 1..MaxInvocations :
        /\ reddit[p].stage = "requesting"
        /\ reddit' = [reddit EXCEPT
                         ![p].calls = @ - 1,
                         ![p].stage = IF reddit[p].calls > 1
                                      THEN "ensuring" ELSE "done"]
        /\ UNCHANGED <<clock, Deployment, putCallVars, healthVars,
                       insiderVars, dispatchVars>>

Tick ==
    /\ clock < MaxClock
    /\ clock' = clock + 1
    /\ UNCHANGED <<reddit, Deployment, putCallVars, healthVars,
                   insiderVars, dispatchVars>>

NextReddit ==
    \/ StartRedditTool
    \/ EnsureValidToken
    \/ AuthenticateSettles
    \/ RedditRequestSettles
    \/ Tick

InitReddit == InitHealth

SpecReddit == InitReddit /\ [][NextReddit]_vars

(***************************************************************************)
(* The CallTool request handler: the call is dispatched to its handler,    *)
(* which answers at once or awaits its upstream request and then answers.  *)
(***************************************************************************)
CallTool ==
    /\ dstage = "idle"
    /\ \E name \in ToolNames, args \in Arguments :
          LET h == handlerOf(build, name)
          IN  /\ request' = [name |-> name, arguments |-> args]
              /\ upstream' = NoResult
              /\ IF awaitsUpstream(h, config, args)
                 THEN /\ dstage' = "awaiting"
                      /\ toolOutcome' = NoResult
                      /\ response' = NoResult
                 ELSE /\ dstage' = "responded"
                      /\ toolOutcome' =
                            IF h = "none" THEN NoResult
                            ELSE invokeTool(h, impl, config, args, NoResult)
                      /\ response' = callToolResponse(build, name, toolOutcome')
    /\ UNCHANGED <<Deployment, redditVars, putCallVars, healthVars, insiderVars>>

UpstreamSettles ==
    /\ dstage = "awaiting"
    /\ UpstreamSettlesAs(handlerOf(build, request.name), upstream')
    /\ toolOutcome' = invokeTool(handlerOf(build, request.name), impl, config,
                                 request.arguments, upstream')
    /\ response' = callToolResponse(build, request.name, toolOutcome')
    /\ dstage' = "responded"
    /\ UNCHANGED <<request, Deployment, redditVars, putCallVars, healthVars, insiderVars>>

Next == CallTool \/ UpstreamSettles

Spec == Init /\ [][Next]_vars

(***************************************************************************)
(* Claims about the options-ratio parser, checked under SpecPutCall.       *)
(***************************************************************************)
Parsed == stage = "parsed"

AllTotalsZero ==
    /\ parsed.totalPutVolume.n = 0 /\ parsed.totalCallVolume.n = 0
    /\ parsed.totalPutOI.n = 0 /\ parsed.totalCallOI.n = 0

InsightsOfKind(kind) ==
    SelectSeq(parsed.analysis.keyInsights, LAMBDA i : i.kind = kind)

HasWarning(w) ==
    \E i \in 1..Len(parsed.validationResult.warnings) :
        parsed.validationResult.warnings[i] = w

\* C3: whenever the analysis is valid (some final total is non-zero),
\* ratiosByDate has at least one row, and when the table gave no row that
\* row is the synthetic "Overall" row carrying the final totals.
C3_RowWheneverData ==
    (Parsed /\ parsed.validationResult.isValid) =>
        /\ Len(parsed.ratiosByDate) >= 1
        /\ parsed.tableRows = <<>> =>
               parsed.ratiosByDate =
                   <<overallRow([putVolume |-> parsed.totalPutVolume,
                                 callVolume |-> parsed.totalCallVolume,
                                 putOI |-> parsed.totalPutOI,
                                 callOI |-> parsed.totalCallOI,
                                 volumeRatio |-> parsed.overallPutCallVolumeRatio,
                                 oiRatio |-> parsed.overallPutCallOIRatio])>>

C6_RowRatioReconciled ==
    Parsed =>
        \A i \in 1..Len(parsed.ratiosByDate) :
            LET e == parsed.ratiosByDate[i]
            IN  e.callVolume.n > 0 =>
                    \/ RLe(RAbs(RSub(e.putCallVolumeRatio,
                                     RDiv(e.putVolume, e.callVolume))), Dec(10))
                    \/ parsed.validationResult.warnings # <<>>

\* C7: the sentiment is bearish above 1.2, bullish below 0.8 and neutral
\* from 0.8 to 1.2 (of the overall volume ratio alone), with exactly one
\* volume insight, worded for that branch and embedding the ratio rounded
\* to two decimals; 1.5 gives bearish with "1.50" and 0.5 gives bullish.
C7_SentimentByVolumeRatio ==
    Parsed =>
        LET r == parsed.overallPutCallVolumeRatio
            vol == InsightsOfKind("volume")
            expected == IF 5 * r.n > 6 * r.d THEN "bearish"
                        ELSE IF 5 * r.n < 4 * r.d THEN "bullish"
                        ELSE "neutral"
        IN  /\ parsed.analysis.sentiment = expected
            /\ Len(vol) = 1
            /\ 2 * Abs(100 * r.n - vol[1].fixed * r.d) <= r.d
            /\ vol[1].says = CASE expected = "bearish" -> "heavy put buying"
                               [] expected = "bullish" -> "heavy call buying"
                               [] OTHER -> "neutral sentiment"
            /\ r = Rat(3, 2) =>
                   parsed.analysis.sentiment = "bearish" /\ vol[1].fixed = 150
            /\ r = Rat(1, 2) => parsed.analysis.sentiment = "bullish"

\* C7 witness: an overall volume ratio of 1.5 classified
C7_Witness ==
    /\ Parsed
    /\ parsed.overallPutCallVolumeRatio = Rat(3, 2)
    /\ parsed.analysis.sentiment = "bearish"

\* C8: with at least 3 rows the "increasing" insight is there exactly when
\* r0 < r1 < r2, the "decreasing" insight exactly when r0 > r1 > r2, and
\* with fewer than 3 rows there is no trend insight.
C8_TrendStrictlyMonotonic ==
    Parsed =>
        LET rows == parsed.ratiosByDate
            trend == InsightsOfKind("trend")
            says(w) == \E i \in 1..Len(trend) : trend[i].says = w
        IN  IF Len(rows) >= 3
            THEN LET r0 == rows[1].putCallVolumeRatio
                     r1 == rows[2].putCallVolumeRatio
                     r2 == rows[3].putCallVolumeRatio
                 IN  /\ says("increasing") <=> (RLt(r0, r1) /\ RLt(r1, r2))
                     /\ says("decreasing") <=> (RGt(r0, r1) /\ RGt(r1, r2))
            ELSE trend = <<>>

\* C9: when a put or call total is non-zero and the page gave no ratio for
\* it (the ratio read was zero), the warnings say the ratio was computed;
\* for the volume ratio and for the open-interest ratio.
C9_ComputedRatioWarned ==
    Parsed =>
        /\ ( /\ parsed.totalPutVolume.n # 0 \/ parsed.totalCallVolume.n # 0
             /\ parsed.read.volumeRatio.n = 0 )
               => HasWarning("volume ratio computed")
        /\ ( /\ parsed.totalPutOI.n # 0 \/ parsed.totalCallOI.n # 0
             /\ parsed.read.oiRatio.n = 0 )
               => HasWarning("OI ratio computed")

(***************************************************************************)
(* Claims about the tool handlers and the dispatcher, checked under Spec.  *)
(***************************************************************************)
Responded == dstage = "responded"

Handler == handlerOf(build, request.name)

IsEnvelope(r) ==
    /\ DOMAIN r = {"content", "isError"}
    /\ Len(r.content) = 1
    /\ DOMAIN r.content[1] = {"type", "text"}
    /\ r.content[1].type = "text"
    /\ r.isError \in BOOLEAN

ResponseText == response.content[1].text

\* the upstream request was made and answered with a page
PageFetched == Responded /\ "ok" \in DOMAIN upstream /\ upstream.ok

\* C1: every tool call ends with an envelope {content: [{type: 'text',
\* text}]}, with isError or not; a handler of the repository returns its
\* envelope itself (nothing it throws leaves it), whatever a handler throws
\* stops at the CallTool handler, and an unknown name is answered with
\* isError and 'Unknown tool: <name>'.
C1_AlwaysAnEnvelope ==
    Responded =>
        /\ IsEnvelope(response)
        /\ Handler \in Handlers =>
               /\ toolOutcome.kind = "return"
               /\ IsEnvelope(toolOutcome.value)
               /\ response = toolOutcome.value
        /\ (Handler \in MissingHandlers /\ toolOutcome.kind = "throw") =>
               response.isError /\ ResponseText.says = "Error executing"
        /\ Handler = "none" =>
               /\ response.isError
               /\ ResponseText = [says |-> "Unknown tool", name |-> request.name]

\* C1 witness: an upstream failure caught inside a handler and returned
C1_Witness ==
    /\ Responded
    /\ Handler \in Handlers
    /\ "ok" \in DOMAIN upstream /\ ~upstream.ok
    /\ response.isError
    /\ ResponseText.says = "tool error"

\* the page holds nothing the handler's parser looks for
StructuralMiss ==
    /\ PageFetched
    /\ \/ Handler \in {"advancedStockFilter", "getInsiderActivity"}
          /\ Len(upstream.body) <= 1
       \/ Handler = "getFundamentalMetrics" /\ upstream.body = <<>>
       \/ Handler = "getPutCallRatio" /\ upstream.body = NoPage

\* C2 as stated: a page fetched without the expected table or fields is
\* answered, by every tool, with a response that does not carry isError.
C2_MissNeverAnError ==
    StructuralMiss => ~response.isError

\* C2 amended: the screening, fundamentals and insider tools answer such a
\* page with empty data and no isError; the put/call tool answers it with
\* isError, the zeroed analysis attached.
C2_MissAnErrorOnlyForPutCall ==
    StructuralMiss =>
        LET data == ResponseText.data
        IN  /\ ResponseText.says = "payload"
            /\ Handler = "advancedStockFilter" =>
                   ~response.isError /\ data.results = <<>> /\ data.total_found = 0
            /\ Handler = "getInsiderActivity" =>
                   /\ ~response.isError
                   /\ data.transactions = <<>>
                   /\ data.total_transactions = 0
            /\ Handler = "getFundamentalMetrics" =>
                   ~response.isError /\ data.fundamentals = <<>>
            /\ Handler = "getPutCallRatio" =>
                   /\ response.isError
                   /\ data.put_call_analysis.totalPutVolume = Zero
                   /\ data.put_call_analysis.totalCallVolume = Zero
                   /\ data.put_call_analysis.totalPutOI = Zero
                   /\ data.put_call_analysis.totalCallOI = Zero
                   /\ data.put_call_analysis.ratiosByDate = <<>>
                   /\ Len(data.details) = 1

\* C2 witness: the put/call tool answering a page without options data
C2_Witness ==
    /\ StructuralMiss
    /\ Handler = "getPutCallRatio"
    /\ response.isError
    /\ ResponseText.says = "payload"

(***************************************************************************)
(* Claim about the health score, checked under SpecHealth.                 *)
(***************************************************************************)
\* C4: for every fundamentals input and every weights object the schema
\* accepts, overall_score lies in 0..100.
C4_OverallScoreInRange ==
    hstage = "scored" => health.overall_score \in 0..100

(***************************************************************************)
(* Claim about the insider sentiment, checked under SpecInsider.           *)
(***************************************************************************)
\* a transaction counts: dated within analysis_period days of the clock
\* (a date that reads as no date stands at the epoch) and of a value whose
\* magnitude reaches min_transaction_value
DayOf(t) == IF t.date.form = "none" THEN 0 ELSE t.date.day

Qualifies(t) ==
    /\ iargs.now - 2 * DayOf(t) <= 2 * iargs.analysis_period
    /\ (IF t.value.amount < 0 THEN 0 ELSE t.value.amount)
           >= iargs.min_transaction_value

NoneQualifies ==
    \A i \in 1..Len(transactions) : ~Qualifies(transactions[i])

\* C10: with no qualifying transaction (each one older than analysis_period
\* days or below min_transaction_value, or none at all) the result is
\* exactly neutral, low, all counts and values 0, the one fixed insight and
\* no insider types: the record of the early return, not a classification.
C10_NoQualifyingIsNeutral ==
    (istage = "analysed" /\ NoneQualifies) =>
        sentiment =
            [overall_sentiment |-> "neutral",
             confidence_level |-> "low",
             transaction_summary |->
                 [total_transactions |-> 0, buy_transactions |-> 0,
                  sell_transactions |-> 0, total_buy_value |-> 0,
                  total_sell_value |-> 0],
             key_insights |-> <<"no significant insider transactions">>,
             insider_types |-> <<>>]

\* C10 witness: two transactions, one too old and one too small
C10_Witness ==
    /\ istage = "analysed"
    /\ Len(transactions) = 2
    /\ NoneQualifies
    /\ iargs.now - 2 * DayOf(transactions[1]) > 2 * iargs.analysis_period
    /\ transactions[2].value.amount \in 0..(iargs.min_transaction_value - 1)
    /\ Qualifies([transactions[2] EXCEPT !.value.amount = 600000])
    /\ sentiment.overall_sentiment = "neutral"

\* the magnitude a value text spells, 0 when it spells no number
Magnitude(t) == IF t.value.amount < 0 THEN 0 ELSE t.value.amount

QualifyingCount ==
    Cardinality({i \in 1..Len(transactions) : Qualifies(transactions[i])})

\* the magnitudes of the first n transactions that qualify and whose type
\* is one of kinds, summed
RECURSIVE QualifyingValue(_, _)
QualifyingValue(n, kinds) ==
    IF n = 0 THEN 0
    ELSE (IF /\ Qualifies(transactions[n])
             /\ transactions[n].transactionType \in kinds
          THEN Magnitude(transactions[n]) ELSE 0)
         + QualifyingValue(n - 1, kinds)

\* a type holding a buy keyword is a buy whatever else it holds; a sell is
\* a type holding a sell keyword and no buy keyword
BuyValue == QualifyingValue(Len(transactions), {"buy", "exercise and sale"})
SellValue == QualifyingValue(Len(transactions), {"sale"})

C12_ConfidenceByCountAndValue ==
    (istage = "analysed" /\ QualifyingCount > 0) =>
        LET total == BuyValue + SellValue
        IN  /\ sentiment.transaction_summary.total_transactions
                   = QualifyingCount
            /\ sentiment.confidence_level =
                   IF QualifyingCount >= 10 /\ total >= 1000000 THEN "high"
                   ELSE IF QualifyingCount >= 5 /\ total >= 500000
                        THEN "medium"
                   ELSE "low"

\* C12 witness: four sales of 125,000 and one award: the award makes the
\* count five, the sales alone make the 500,000
C12_Witness ==
    /\ istage = "analysed"
    /\ QualifyingCount = 5
    /\ Len(SelectSeq(transactions,
               LAMBDA t : t.transactionType = "sale")) = 4
    /\ BuyValue + SellValue = 500000
    /\ sentiment.confidence_level = "medium"

\* C13: a transaction whose date cannot be read is left out of the
\* qualifying set for every analysis_period, whatever its value: the
\* result counts no more transactions than have a readable date.
C13_UnreadableDateExcluded ==
    istage = "analysed" =>
        sentiment.transaction_summary.total_transactions
            <= Cardinality({i \in 1..Len(transactions) :
                               transactions[i].date.form # "none"})

(***************************************************************************)
(* Claim about the Reddit bearer token, checked under SpecReddit.          *)
(***************************************************************************)
\* a token some invocation obtained is still unexpired
LiveTokenExists ==
    \E q \in 1..MaxInvocations :
        reddit[q].accessToken # "" /\ reddit[q].tokenExpiry > clock

\* C14: the bearer token is cached and shared between requests: an
\* invocation goes on to authenticate() only when no token obtained so far
\* is still unexpired; one that runs while an earlier token is unexpired
\* reuses it.
C14_AuthenticateOnlyWithoutLiveToken ==
    [][\A p \in 1..MaxInvocations :
          (reddit[p].stage = "ensuring" /\ reddit'[p].stage = "authenticating")
              => ~LiveTokenExists]_vars

(***************************************************************************)
(* Claim about the tool catalog, checked under Spec.                       *)
(***************************************************************************)
Listed(name) == \E i \in 1..Len(tools) : tools[i] = name

\* C15: the base tools are always listed; the trending-tickers tool iff
\* all four Reddit credentials are set, the news tool iff the OpenAI key is
\* set, the Reddit-sentiment tool iff both; nothing else is listed.
C15_CatalogByCapability ==
    build = "current" =>
        LET base == {"screen_stocks_advanced_filters",
                     "get_fundamental_stock_metrics",
                     "compare_stock_valuations",
                     "calculate_financial_health_score",
                     "analyze_insider_activity", "get_put_call_ratio",
                     "comprehensive_stock_analysis"}
            redditSet == /\ config.clientId /\ config.clientSecret
                         /\ config.username /\ config.password
        IN  /\ \A name \in base : Listed(name)
            /\ Listed("discover_trending_stocks") <=> redditSet
            /\ Listed("analyze_news_and_market_context") <=> config.openaiApiKey
            /\ Listed("analyze_reddit_sentiment")
                   <=> (redditSet /\ config.openaiApiKey)
            /\ \A i \in 1..Len(tools) :
                   tools[i] \in base \cup {"discover_trending_stocks",
                                           "analyze_news_and_market_context",
                                           "analyze_reddit_sentiment"}

\* C15 witness: three of the four Reddit credentials and the OpenAI key:
\* the news tool is the only conditional tool listed
C15_Witness ==
    /\ build = "current"
    /\ config.clientId /\ config.clientSecret /\ config.username
    /\ ~config.password
    /\ config.openaiApiKey
    /\ Listed("analyze_news_and_market_context")
    /\ ~Listed("discover_trending_stocks")
    /\ ~Listed("analyze_reddit_sentiment")
    /\ Len(tools) = 8

(***************************************************************************)
(* Claims about the screening and insider tools, checked under Spec.       *)
(***************************************************************************)
\* the tool answered with its list: the items and the count it reports
ListAnswered ==
    /\ PageFetched
    /\ Handler \in {"advancedStockFilter", "getInsiderActivity"}
    /\ ResponseText.says = "payload"

ListedItems ==
    IF Handler = "advancedStockFilter"
    THEN ResponseText.data.results ELSE ResponseText.data.transactions

ListedCount ==
    IF Handler = "advancedStockFilter"
    THEN ResponseText.data.total_found
    ELSE ResponseText.data.total_transactions

\* C16: limit is a maximum: for every limit the schema accepts the
\* screening tool and the insider-activity tool return at most limit
\* items, and total_found / total_transactions is the number returned.
C16_LimitIsMaximum ==
    ListAnswered =>
        /\ Len(ListedItems) <= request.arguments.limit
        /\ ListedCount = Len(ListedItems)

\* the rows after the first with at least 11 cells and a ticker
ValidScreenerRows(rows) ==
    IF rows = <<>> THEN <<>>
    ELSE SelectSeq(Tail(rows),
             LAMBDA row : row.cells >= 11 /\ row.key # "" /\ row.key # "-")

\* C18: parseScreenerResults returns, in page order, exactly the rows
\* after the first that have at least 11 cells and a ticker that is
\* neither empty nor '-'; a page without the table gives the empty list
\* and no error.  Seen through the screening tool called with a limit
\* above the number of rows.
C18_ResultsAreValidRowsInOrder ==
    (PageFetched /\ Handler = "advancedStockFilter"
        /\ request.arguments.wellTyped
        /\ request.arguments.limit >= Len(upstream.body)) =>
        LET rows == ValidScreenerRows(upstream.body)
        IN  /\ ~response.isError
            /\ ResponseText.says = "payload"
            /\ Len(ResponseText.data.results) = Len(rows)
            /\ \A i \in 1..Len(rows) :
                   ResponseText.data.results[i] = rows[i].key

\* C18 witness: the header, two stocks and a row with ticker '-' give the
\* two stocks
C18_Witness ==
    /\ PageFetched
    /\ Handler = "advancedStockFilter"
    /\ request.arguments.limit = 10
    /\ Len(upstream.body) = 4
    /\ Len(SelectSeq(upstream.body, LAMBDA row : row.key = "-")) = 1
    /\ ~response.isError
    /\ ResponseText.data.results = <<"MSFT", "AAPL">>

(***************************************************************************)
(* Claim about the rounding and the rating of the health score, checked    *)
(* under SpecHealth.                                                       *)
(***************************************************************************)
WeightedSum ==
    LET part(c) == RMul(health.component_scores[c], weights[c])
    IN  RAdd(part("profitability"),
             RAdd(part("liquidity"),
                  RAdd(part("leverage"),
                       RAdd(part("efficiency"), part("growth")))))

\* profit margin 10%, ROE 20%, current ratio 2, debt/equity 0.2, P/E 15,
\* EPS growth 5%, scored with the default weights
ExampleScored ==
    /\ hstage = "scored"
    /\ weights = DefaultWeights
    /\ fundamentals = FundamentalsOf(Num(10), Num(20), Num(2), Dec(20),
                                     Num(15), Num(5))

\* C17: overall_score is the weighted sum of the five component scores
\* rounded to the nearest integer (a half rounds up), the rating is a
\* function of that rounded score only (>= 80 Excellent, >= 70 Good, >= 60
\* Fair, >= 40 Below Average, else Poor), and the example scores at least
\* 70 and is rated Good or Excellent.
C17_RoundedSumAndRating ==
    hstage = "scored" =>
        LET sum == WeightedSum
            score == health.overall_score
        IN  /\ (2 * score - 1) * sum.d <= 2 * sum.n
            /\ 2 * sum.n < (2 * score + 1) * sum.d
            /\ health.rating =
                   CASE score >= 80 -> "Excellent"
                     [] score \in 70..79 -> "Good"
                     [] score \in 60..69 -> "Fair"
                     [] score \in 40..59 -> "Below Average"
                     [] score < 40 -> "Poor"
            /\ ExampleScored =>
                   (score >= 70 /\ health.rating \in {"Good", "Excellent"})

\* C17 witness: the example sums to 81.75 and is scored 82, Excellent
C17_Witness ==
    /\ ExampleScored
    /\ WeightedSum = Rat(327, 4)
    /\ health.overall_score = 82
    /\ health.rating = "Excellent"

(***************************************************************************)
(* Claims about the extraction stages and the consolidation of the         *)
(* put/call parser, checked under SpecPutCall.                             *)
(***************************************************************************)
\* the number a text of the page spells, 0 when it spells none
Spelled(text) == IF text.d = 0 THEN Zero ELSE text

BlockHasVolume ==
    Spelled(page.block.putVolume).n # 0 \/ Spelled(page.block.callVolume).n # 0

\* the labelled text of the page matches some pattern of the regex stage
\* with a number other than the one the block gives for that quantity
RegexWouldDiffer ==
    \E f \in Fields :
        page.regex[f].d # 0 /\ page.regex[f] # Spelled(page.block[f])

\* C19: the whole-page regex stage runs iff both volume totals are zero
\* after the structured block; when the block gave a non-zero volume total
\* all six quantities are the block's values, even those it left at zero,
\* and when it ran each quantity whose pattern matched is the matched one.
C19_RegexStageOnlyWithoutBlockVolumes ==
    Parsed =>
        \A f \in Fields :
            parsed.read[f] =
                IF ~BlockHasVolume /\ page.regex[f].d # 0
                THEN Spelled(page.regex[f])
                ELSE Spelled(page.block[f])

\* C19 witness: the block gives a put volume and leaves the call volume at
\* zero, the page text spells a call volume, and the call volume read is 0
C19_Witness ==
    /\ Parsed
    /\ BlockHasVolume
    /\ RegexWouldDiffer
    /\ page.regex.callVolume.d # 0 /\ page.regex.callVolume.n # 0
    /\ parsed.read.callVolume = Zero
    /\ parsed.read.putVolume = Spelled(page.block.putVolume)

\* the sum of a field over the per-expiration rows read from the table
RECURSIVE RowSum(_, _)
RowSum(n, field) ==
    IF n = 0 THEN Zero
    ELSE RAdd(parsed.tableRows[n][field], RowSum(n - 1, field))

FinalTotal(extractedValue, field) ==
    IF extractedValue.n # 0 THEN extractedValue
    ELSE RowSum(Len(parsed.tableRows), field)

FinalTotalsByField ==
    /\ parsed.totalPutVolume = FinalTotal(parsed.extracted.putVolume, "putVolume")
    /\ parsed.totalCallVolume = FinalTotal(parsed.extracted.callVolume, "callVolume")
    /\ parsed.totalPutOI = FinalTotal(parsed.extracted.putOI, "putOpenInterest")
    /\ parsed.totalCallOI = FinalTotal(parsed.extracted.callOI, "callOpenInterest")

\* ratio * call = put, for a call total that is not zero
IsQuotient(ratio, put, call) ==
    /\ call.n # 0
    /\ ratio.n * call.n * put.d = put.n * ratio.d * call.d

SevenCellDateRows ==
    {i \in 1..Len(page.rows) :
        page.rows[i].date /\ Len(page.rows[i].cells) >= 6}

\* C21: a table row gives a per-expiration entry only if its first cell is
\* date-like and at least 6 cells follow the date cell (7 cells in all):
\* there are no more entries than such rows.
C21_EntryNeedsSixCellsAfterDate ==
    Parsed => Len(parsed.tableRows) <= Cardinality(SevenCellDateRows)

(***************************************************************************)
(* Claim about compare_stock_valuations, checked under Spec.               *)
(***************************************************************************)
ValuationsAnswered ==
    /\ PageFetched
    /\ Handler = "analyzeValuationMetrics"

Requested == {upstream.body[i].ticker : i \in 1..Len(upstream.body)}

InErrors(ticker) ==
    \E i \in 1..Len(ResponseText.data.errors) :
        ResponseText.data.errors[i] = ticker

\* every fetch is accounted for: a ticker is a key of valuations iff some
\* fetch of it succeeded, errors holds one entry per failed fetch, in the
\* order of the requests, and the response carries no isError
EveryFetchRecorded ==
    /\ ~response.isError
    /\ ResponseText.says = "payload"
    /\ ResponseText.data.valuations =
           {upstream.body[i].ticker :
               i \in {j \in 1..Len(upstream.body) : upstream.body[j].ok}}
    /\ LET failed == SelectSeq(upstream.body, LAMBDA fetch : ~fetch.ok)
       IN  /\ Len(ResponseText.data.errors) = Len(failed)
           /\ \A i \in 1..Len(failed) :
                  ResponseText.data.errors[i] = failed[i].ticker

\* C22 as stated: a failed fetch is recorded in errors without aborting
\* the tickers after it, the response never carries isError, and each
\* requested ticker ends up in exactly one of valuations or errors.
C22_EachTickerInExactlyOne ==
    ValuationsAnswered =>
        /\ EveryFetchRecorded
        /\ \A ticker \in Requested :
               (ticker \in ResponseText.data.valuations) # InErrors(ticker)

\* C22 amended: the same, each ticker being in exactly one of the two when
\* no ticker is requested twice.
C22_EachFetchInExactlyOne ==
    ValuationsAnswered =>
        /\ EveryFetchRecorded
        /\ Cardinality(Requested) = Len(upstream.body) =>
               \A ticker \in Requested :
                   (ticker \in ResponseText.data.valuations) # InErrors(ticker)

\* C22 witness: the first ticker fails, the second is still fetched
C22_Witness ==
    /\ ValuationsAnswered
    /\ Len(upstream.body) = 2
    /\ Cardinality(Requested) = 2
    /\ ~upstream.body[1].ok /\ upstream.body[2].ok
    /\ ResponseText.data.valuations = {upstream.body[2].ticker}
    /\ ResponseText.data.errors = <<upstream.body[1].ticker>>
    /\ ~response.isError

(***************************************************************************)
(* Claims about the component scores, checked under SpecHealth.            *)
(***************************************************************************)
Scored == hstage = "scored"

Absent(text) == text.d = 0

\* C23: each of the five component scores lies in 0..100 for every
\* fundamentals input (absent fields, placeholders, negative and large
\* values), and an absent or non-numeric metric gives exactly 50 for
\* liquidity, leverage, efficiency and growth.
C23_ComponentScoresInRange ==
    Scored =>
        /\ \A c \in Components :
               /\ health.component_scores[c].n >= 0
               /\ health.component_scores[c].n
                      <= 100 * health.component_scores[c].d
        /\ Absent(fundamentals.currentRatio)
               => health.component_scores.liquidity = Num(50)
        /\ Absent(fundamentals.debtToEquity)
               => health.component_scores.leverage = Num(50)
        /\ Absent(fundamentals.pe)
               => health.component_scores.efficiency = Num(50)
        /\ Absent(fundamentals.epsGrowth)
               => health.component_scores.growth = Num(50)

\* C23 witness: a margin of 40% and a growth of -60% are clamped, the
\* current ratio is absent, a debt/equity of 4 stops at 10
C23_Witness ==
    /\ Scored
    /\ fundamentals.profitMargin = Num(40)
    /\ Absent(fundamentals.returnOnEquity)
    /\ Absent(fundamentals.currentRatio)
    /\ fundamentals.debtToEquity = Num(4)
    /\ fundamentals.epsGrowth = Num(0 - 60)
    /\ health.component_scores.profitability = Num(100)
    /\ health.component_scores.liquidity = Num(50)
    /\ health.component_scores.leverage = Num(10)
    /\ health.component_scores.growth = Zero

\* 50 + factor * percent, kept within 0..100
ClampedFrom50(percent, factor) ==
    LET raw == RAdd(Num(50), RMul(percent, Num(factor)))
    IN  IF raw.n < 0 THEN Zero
        ELSE IF raw.n > 100 * raw.d THEN Num(100)
        ELSE raw

\* C24: the profitability score is 50 when the profit margin is absent;
\* with the margin present it is clamp(0, 100, 50 + 2 * margin), and with
\* ROE present as well it is the mean of that and
\* clamp(0, 100, 50 + 3 * roe).
C24_ProfitabilityByMarginThenRoe ==
    Scored =>
        health.component_scores.profitability =
            IF Absent(fundamentals.profitMargin) THEN Num(50)
            ELSE IF Absent(fundamentals.returnOnEquity)
            THEN ClampedFrom50(fundamentals.profitMargin, 2)
            ELSE RDiv(RAdd(ClampedFrom50(fundamentals.profitMargin, 2),
                           ClampedFrom50(fundamentals.returnOnEquity, 3)),
                      Num(2))

(***************************************************************************)
(* Claim about the sentiment of a page without data, checked under         *)
(* SpecPutCall.                                                            *)
(***************************************************************************)
\* C25: whenever validationResult.isValid is false (no volume and no open
\* interest was extracted) the analysis carries the sentiment neutral:
\* absent data is never classified as bullish or bearish.
C25_InvalidDataIsNeutral ==
    (Parsed /\ ~parsed.validationResult.isValid) =>
        parsed.analysis.sentiment = "neutral"

(***************************************************************************)
(* Claim about qualifying transactions that are neither bought nor sold,   *)
(* checked under SpecInsider.                                              *)
(***************************************************************************)
\* C26: when some transaction qualifies but the qualifying buys and sells
\* total 0, the sentiment is neutral; bullish or bearish is returned only
\* when some buy or sell value was counted.
C26_DirectionNeedsTradeValue ==
    (istage = "analysed" /\ QualifyingCount > 0 /\ BuyValue + SellValue = 0)
        => sentiment.overall_sentiment = "neutral"

(***************************************************************************)
(* Claim about payloads that carry an error field, checked under Spec.     *)
(***************************************************************************)
\* the response is a JSON payload with an `error` field: the put/call
\* payload of an invalid extraction, the news-impact payload answered
\* before any upstream request, the Reddit sentiment payload of a search
\* that found no posts
PayloadCarriesError ==
    /\ Responded
    /\ Handler # "none"
    /\ ResponseText.says = "payload"
    /\ \/ Handler = "getPutCallRatio" /\ "error" \in DOMAIN ResponseText.data
       \/ Handler = "analyzeNewsImpact" /\ upstream = NoResult
       \/ /\ Handler \in {"analyzeSocialSentiment", "analyzeRedditSentiment"}
          /\ PageFetched
          /\ upstream.body = "nothing"
    /\ "error" \in DOMAIN ResponseText.data

\* C27: every tool response whose JSON payload carries an `error` field is
\* flagged isError: true, across all tools.
C27_ErrorPayloadIsFlagged ==
    PayloadCarriesError => response.isError

(***************************************************************************)
(* Claims about the origin of the totals and about the ratios of a         *)
(* PutCallRatioAnalysis, checked under SpecPutCall.                        *)
(***************************************************************************)
\* the two final totals are both the extracted ones or both the row sums
SameOrigin(finalPut, finalCall, extractedPut, extractedCall, putField, callField) ==
    \/ finalPut = extractedPut /\ finalCall = extractedCall
    \/ /\ finalPut = RowSum(Len(parsed.tableRows), putField)
       /\ finalCall = RowSum(Len(parsed.tableRows), callField)

\* C28: the final put-volume and call-volume totals always come from the
\* same source, both the extracted page totals or both the sums over the
\* per-expiration rows, and likewise the two open-interest totals.
C28_TotalsOfOneOrigin ==
    Parsed =>
        /\ SameOrigin(parsed.totalPutVolume, parsed.totalCallVolume,
                      parsed.extracted.putVolume, parsed.extracted.callVolume,
                      "putVolume", "callVolume")
        /\ SameOrigin(parsed.totalPutOI, parsed.totalCallOI,
                      parsed.extracted.putOI, parsed.extracted.callOI,
                      "putOpenInterest", "callOpenInterest")


\* the quotient put / call behind the guard call > 0, and 0 without it
GuardedQuotient(ratio, put, call) ==
    IF call.n > 0 THEN IsQuotient(ratio, put, call) ELSE ratio = Zero

\* the ratio is a number some row of the page spells in the given cell
ReadFromRow(ratio, cell) ==
    /\ ratio.n # 0
    /\ \E j \in 1..Len(page.rows) : Cell(page.rows[j], cell) = ratio

\* the ratio is the one the page gives with its totals
ReadFromTotals(ratio, field) ==
    /\ ratio.n # 0
    /\ ratio = parsed.read[field]

RatiosOfRow(e) ==
    /\ e.putCallVolumeRatio.d > 0
    /\ e.putCallOIRatio.d > 0
    /\ e.totalVolume = RAdd(e.putVolume, e.callVolume)
    /\ e.totalOpenInterest = RAdd(e.putOpenInterest, e.callOpenInterest)
    /\ \/ GuardedQuotient(e.putCallVolumeRatio, e.putVolume, e.callVolume)
       \/ IF e.expirationDate = "Overall"
          THEN ReadFromTotals(e.putCallVolumeRatio, "volumeRatio")
          ELSE ReadFromRow(e.putCallVolumeRatio, 3)
    /\ \/ GuardedQuotient(e.putCallOIRatio, e.putOpenInterest, e.callOpenInterest)
       \/ IF e.expirationDate = "Overall"
          THEN ReadFromTotals(e.putCallOIRatio, "oiRatio")
          ELSE ReadFromRow(e.putCallOIRatio, 6)

\* C29: no ratio is produced by dividing by zero: in every per-expiration
\* row, in the "Overall" row and in the overall result each ratio is finite
\* and, unless it is a number read from the page, equals put / call when the
\* call side is > 0 and 0 when it is 0; every row has totalVolume =
\* putVolume + callVolume and totalOpenInterest = putOpenInterest +
\* callOpenInterest.
C29_RatiosGuardedAndRowsAdditive ==
    Parsed =>
        /\ \A i \in 1..Len(parsed.ratiosByDate) : RatiosOfRow(parsed.ratiosByDate[i])
        /\ parsed.overallPutCallVolumeRatio.d > 0
        /\ parsed.overallPutCallOIRatio.d > 0
        /\ \/ GuardedQuotient(parsed.overallPutCallVolumeRatio,
                              parsed.totalPutVolume, parsed.totalCallVolume)
           \/ ReadFromTotals(parsed.overallPutCallVolumeRatio, "volumeRatio")
        /\ \/ GuardedQuotient(parsed.overallPutCallOIRatio,
                              parsed.totalPutOI, parsed.totalCallOI)
           \/ ReadFromTotals(parsed.overallPutCallOIRatio, "oiRatio")

\* a row with puts and no calls whose volume ratio is the guarded 0, a row
\* whose open-interest ratio is the computed quotient, and an overall
\* volume ratio computed from the final totals
C29_Witness ==
    /\ Parsed
    /\ parsed.read.volumeRatio.n = 0
    /\ parsed.totalCallVolume.n > 0
    /\ IsQuotient(parsed.overallPutCallVolumeRatio,
                  parsed.totalPutVolume, parsed.totalCallVolume)
    /\ \E i \in 1..Len(parsed.ratiosByDate) :
        LET e == parsed.ratiosByDate[i]
        IN  /\ e.expirationDate = "date"
            /\ e.putVolume.n > 0
            /\ e.callVolume.n = 0
            /\ e.putCallVolumeRatio = Zero
    /\ \E i \in 1..Len(parsed.ratiosByDate) :
        LET e == parsed.ratiosByDate[i]
        IN  /\ e.callOpenInterest.n > 0
            /\ e.putOpenInterest.n > 0
            /\ ~ReadFromRow(e.putCallOIRatio, 6)
            /\ IsQuotient(e.putCallOIRatio, e.putOpenInterest, e.callOpenInterest)


(***************************************************************************)
(* Claim about the credential gate of the tools, checked under Spec.       *)
(***************************************************************************)
AllRedditCredentials ==
    config.clientId /\ config.clientSecret /\ config.username /\ config.password

\* the tool called is credential-gated and its credentials are missing
CredentialsMissing ==
    \/ /\ Handler \in {"searchRedditPosts", "getRedditComments",
                       "getTrendingTickers"}
       /\ ~AllRedditCredentials
    \/ /\ Handler \in {"getLatestNews", "analyzeNewsImpact", "getMarketContext"}
       /\ ~config.openaiApiKey
    \/ /\ Handler \in {"analyzeSocialSentiment", "analyzeRedditSentiment"}
       /\ ~(AllRedditCredentials /\ config.openaiApiKey)

\* the handler answered without awaiting any upstream request (the OAuth
\* token request, a Reddit or an OpenAI call)
NoOutboundRequest == upstream = NoResult

\* C30: the dispatcher does not consult the advertised catalog (a name of
\* its switch is dispatched whether listed or not), but a credential-gated
\* tool called while its credentials are missing returns the
\* configuration-error response with isError true, whatever its arguments,
\* and no outbound request is made.
C30_GateBeforeValidationAndRequests ==
    Responded =>
        /\ Handler # "none" => ResponseText.says # "Unknown tool"
        /\ CredentialsMissing =>
               /\ response.isError
               /\ ResponseText.says = "not configured"
               /\ NoOutboundRequest

\* an unlisted Reddit tool called with ill-typed arguments while one Reddit
\* credential is missing
C30_Witness ==
    /\ Responded
    /\ build = "current"
    /\ request.name = "discover_trending_stocks"
    /\ ~Listed(request.name)
    /\ ~request.arguments.wellTyped
    /\ config.clientId /\ config.clientSecret /\ config.username
    /\ ~config.password
    /\ CredentialsMissing
    /\ response.isError
    /\ ResponseText.says = "not configured"
    /\ NoOutboundRequest

====
